---- MODULE Spec2Model ----
(***************************************************************************)
(* Model of MCPLambdaHandler (awslabs/mcp_lambda_handler/                  *)
(* mcp_lambda_handler.py): the JSON-RPC request dispatcher, its session    *)
(* store, its tool registry and the per-request session binding            *)
(* current_session_id.                                                     *)
(*                                                                         *)
(* Session ids are the naturals 1..MaxSessions; None (Python None) is 0    *)
(* and the empty header value '' is EmptySid.  JSON-RPC ids are strings or *)
(* null; bodies whose id is of another type are outside the model.         *)
(***************************************************************************)
EXTENDS Integers, Sequences, FiniteSets, TLC

\* ------------------------------------------------------------------ bounds
MaxSessions == 2

\* ------------------------------------------------------------- vocabulary
None == 0
EmptySid == -1

\* the thread contexts handle_request runs in; Spec uses MainThread alone
MainThread == "t1"
Threads == {"t1", "t2"}
SessionIds == 1..MaxSessions
HeaderSids == {None, EmptySid} \cup SessionIds

ToolNames == {"listItems", "startRun"}
Methods == {"initialize", "tools/list", "tools/call", "ping", "foo"}

VARIABLES
    storeKind,   \* "NoOp" | "Enforcing": class of self.session_store
    sessions,    \* the store's table: session id -> data (a set of keys)
    nextId,      \* the id the next create_session returns
    tools,       \* self.tools: the descriptors, in the order of the dict
    tool_implementations, \* self.tool_implementations: tool name -> callable
    ctx,         \* current_session_id, one value per thread context
    pc,          \* position of each thread's handle_request invocation
    req,         \* the event each thread is handling
    resp,        \* the response each thread's handle_request returned
    calls,       \* collaborators called while handling req, in order
    seen,        \* what the running tool read from current_session_id
    invoked,     \* the call of a tool made while handling req
    helper,      \* the session helper the running tool called, and its value
    issued,      \* session ids returned by a successful initialize
    removed,     \* session ids a DELETE has deleted (204)
    replaced,    \* tool names registered again with another callable
    probe        \* a helper applied on its own: its arguments and its value

vars == <<storeKind, sessions, nextId, tools, tool_implementations, ctx, pc,
          req, resp, calls, seen, invoked, helper, issued, removed,
          replaced, probe>>

\* ------------------------------------------------------------ the requests
NoReq ==
    [headers |-> "-", verb |-> "-", sid |-> None, ctype |-> "-",
     body |-> "-", id |-> "-", jsonrpc |-> "-", method |-> "-",
     params |-> "-", will |-> "-", args |-> "-"]

\* events['headers'] is null: nothing else of the headers can vary
NullHeaderRequests ==
    {[headers |-> "null", verb |-> v, sid |-> None, ctype |-> "absent",
      body |-> "object", id |-> "r1", jsonrpc |-> "2.0", method |-> "ping",
      params |-> "none", will |-> "-", args |-> "-"] :
        v \in {"POST", "DELETE"}}

\* bodies that are missing, null (json.loads raises TypeError), not JSON
\* text, or JSON that is not an object
OpaqueBodyRequests ==
    {[headers |-> "dict", verb |-> v, sid |-> s, ctype |-> "application/json",
      body |-> b, id |-> "absent", jsonrpc |-> "-", method |-> "absent",
      params |-> "none", will |-> "-", args |-> "-"] :
        v \in {"POST", "DELETE"}, s \in HeaderSids,
        b \in {"missing", "null", "invalid", "array"}}

\* params and the tool's behaviour vary only for tools/call; params that are
\* a JSON array instead of an object are tried with two methods
ParamChoices(m) ==
    IF m = "tools/call"
    THEN {<<"none", "-">>, <<"array", "-">>}
            \cup (ToolNames \X {"return", "raise", "convert"})
    ELSE IF m = "initialize"
    THEN {<<"none", "-">>, <<"array", "-">>}
    ELSE {<<"none", "-">>}

ObjectBodyRequests ==
    UNION {
      {[headers |-> "dict", verb |-> v, sid |-> s,
        ctype |-> "application/json",
        body |-> "object", id |-> i, jsonrpc |-> j, method |-> m,
        params |-> p[1], will |-> p[2],
        args |-> IF p[1] \in ToolNames THEN "required" ELSE "-"] :
          v \in {"POST", "DELETE"}, s \in HeaderSids,
          i \in {"absent", "null", "r1"}, j \in {"2.0", "1.0"},
          p \in ParamChoices(m)} : m \in Methods \cup {"absent"}}

\* another content type: a body that is not JSON, a notification, and
\* otherwise well-formed requests
OtherContentTypeRequests ==
    {[r EXCEPT !.ctype = "text/plain"] :
        r \in {q \in OpaqueBodyRequests \cup ObjectBodyRequests :
                 \/ q.body = "invalid"
                 \/ /\ q.body = "object" /\ q.jsonrpc = "2.0"
                    /\ q.id \in {"absent", "r1"}
                    /\ q.method \in {"initialize", "tools/list"}}}

Requests ==
    NullHeaderRequests \cup OpaqueBodyRequests \cup ObjectBodyRequests
        \cup OtherContentTypeRequests

\* ----------------------------------------------------------- the responses
NoResp ==
    [statusCode |-> 0, hasHeaders |-> FALSE, sessionHeader |-> None,
     body |-> "-", id |-> "-", kind |-> "-", code |-> 0, message |-> "-",
     about |-> "-", result |-> "-", listed |-> <<>>,
     errorContent |-> <<>>, members |-> {}]

\* JSONRPCResponse(...).model_dump_json(): of result and error, the members
\* the body carries are those that are not None
ModelDumpJson(hasResult, hasError) ==
    (IF hasResult THEN {"result"} ELSE {}) \cup
    (IF hasError THEN {"error"} ELSE {})

\* mutant: an unlisted code is taken for a client error
ErrorCodeToHttpStatusDefault400(code) ==
    CASE code = -32601 -> 404
      [] code = -32603 -> 500
      [] OTHER -> 400

\* _error_code_to_http_status
ErrorCodeToHttpStatus(code) ==
    CASE code = -32700 -> 400
      [] code = -32600 -> 400
      [] code = -32601 -> 404
      [] code = -32602 -> 400
      [] code = -32603 -> 500
      [] OTHER -> 500

Truthy(sid) == sid \notin {None, EmptySid}

\* mutant: the call-site status override is ignored
CreateErrorResponseNoOverride(code, message, about, requestId, errorContent, sid, status) ==
    [statusCode |-> ErrorCodeToHttpStatus(code),
     hasHeaders |-> TRUE,
     sessionHeader |-> IF Truthy(sid) THEN sid ELSE None,
     body |-> "json", id |-> requestId, kind |-> "error", code |-> code,
     message |-> message, about |-> about, result |-> "-",
     listed |-> <<>>, errorContent |-> errorContent,
     members |-> ModelDumpJson(FALSE, TRUE)]

\* _create_error_response; status = None (0) means no call-site override and
\* errorContent = None (<<>>) no error content
CreateErrorResponse(code, message, about, requestId, errorContent, sid, status) ==
    [statusCode |-> IF status # 0 THEN status ELSE ErrorCodeToHttpStatus(code),
     hasHeaders |-> TRUE,
     sessionHeader |-> IF Truthy(sid) THEN sid ELSE None,
     body |-> "json", id |-> requestId, kind |-> "error", code |-> code,
     message |-> message, about |-> about, result |-> "-",
     listed |-> <<>>, errorContent |-> errorContent,
     members |-> ModelDumpJson(FALSE, TRUE)]

\* mutant: a success response never names the session
CreateSuccessResponseNoSession(result, listed, requestId, sid) ==
    [statusCode |-> 200, hasHeaders |-> TRUE, sessionHeader |-> None,
     body |-> "json", id |-> requestId, kind |-> "result", code |-> 0,
     message |-> "-", about |-> "-", result |-> result,
     listed |-> listed, errorContent |-> <<>>,
     members |-> ModelDumpJson(TRUE, FALSE)]

\* mutant: an empty result object counts as no result
CreateSuccessResponseDropsEmpty(result, listed, requestId, sid) ==
    [statusCode |-> 200, hasHeaders |-> TRUE,
     sessionHeader |-> IF Truthy(sid) THEN sid ELSE None,
     body |-> "json", id |-> requestId, kind |-> "result", code |-> 0,
     message |-> "-", about |-> "-", result |-> result,
     listed |-> listed, errorContent |-> <<>>,
     members |-> ModelDumpJson(result # "empty", FALSE)]

\* _create_success_response; every result the handler passes is a dict,
\* never None
CreateSuccessResponse(result, listed, requestId, sid) ==
    [statusCode |-> 200, hasHeaders |-> TRUE,
     sessionHeader |-> IF Truthy(sid) THEN sid ELSE None,
     body |-> "json", id |-> requestId, kind |-> "result", code |-> 0,
     message |-> "-", about |-> "-", result |-> result,
     listed |-> listed, errorContent |-> <<>>,
     members |-> ModelDumpJson(TRUE, FALSE)]

\* {'statusCode': 204} / {'statusCode': 404} of the DELETE short-circuit
BareResponse(status) == [NoResp EXCEPT !.statusCode = status]

\* the 202 notification response
NotificationResponse ==
    [NoResp EXCEPT !.statusCode = 202, !.hasHeaders = TRUE, !.body = "empty"]

\* ------------------------------------------------------ the tool decorator
\* Python identifiers and tool names are sequences of characters; Str gives
\* the string a sequence spells.
LowerCase ==
    <<"a", "b", "c", "d", "e", "f", "g", "h", "i", "j", "k", "l", "m",
      "n", "o", "p", "q", "r", "s", "t", "u", "v", "w", "x", "y", "z">>

UpperCase ==
    <<"A", "B", "C", "D", "E", "F", "G", "H", "I", "J", "K", "L", "M",
      "N", "O", "P", "Q", "R", "S", "T", "U", "V", "W", "X", "Y", "Z">>

Upper(c) ==
    IF \E i \in DOMAIN LowerCase : LowerCase[i] = c
    THEN UpperCase[CHOOSE i \in DOMAIN LowerCase : LowerCase[i] = c]
    ELSE c

Lower(c) ==
    IF \E i \in DOMAIN UpperCase : UpperCase[i] = c
    THEN LowerCase[CHOOSE i \in DOMAIN UpperCase : UpperCase[i] = c]
    ELSE c

\* str.lower
LowerAll(cs) == [i \in DOMAIN cs |-> Lower(cs[i])]

\* str.capitalize: the first character upper-cased, the others lower-cased
Capitalize(cs) ==
    [i \in DOMAIN cs |-> IF i = 1 THEN Upper(cs[i]) ELSE Lower(cs[i])]

\* str.split('_')
RECURSIVE Split(_)
Split(cs) ==
    IF \A i \in DOMAIN cs : cs[i] # "_"
    THEN <<cs>>
    ELSE LET k == CHOOSE i \in DOMAIN cs :
                      cs[i] = "_" /\ \A j \in 1..(i - 1) : cs[j] # "_"
         IN  <<SubSeq(cs, 1, k - 1)>> \o Split(SubSeq(cs, k + 1, Len(cs)))

\* ''.join of a list of words
RECURSIVE Concat(_)
Concat(words) ==
    IF words = <<>> THEN <<>> ELSE Head(words) \o Concat(Tail(words))

RECURSIVE Str(_)
Str(cs) == IF cs = <<>> THEN "" ELSE Head(cs) \o Str(Tail(cs))

\* mutant: every word is capitalized, the first one too
ToolNameCharsPascal(funcName) ==
    LET words == Split(funcName) IN
    Concat([i \in DOMAIN words |-> Capitalize(words[i])])

\* line 168-172: tool_name, lower camel case of func.__name__
ToolNameChars(funcName) ==
    LET words == Split(funcName) IN
    Concat(<<words[1]>>
           \o [i \in 1..(Len(words) - 1) |-> Capitalize(words[i + 1])])

StartsWith(cs, prefix) ==
    Len(prefix) <= Len(cs) /\ SubSeq(cs, 1, Len(prefix)) = prefix

\* line 263-275: read_only_prefixes
ReadOnlyPrefixes ==
    {<<"l", "i", "s", "t">>,
     <<"g", "e", "t">>,
     <<"s", "e", "a", "r", "c", "h">>,
     <<"t", "a", "i", "l">>,
     <<"c", "o", "u", "n", "t">>,
     <<"c", "h", "e", "c", "k">>,
     <<"v", "a", "l", "i", "d", "a", "t", "e">>,
     <<"d", "i", "s", "c", "o", "v", "e", "r">>,
     <<"a", "n", "a", "l", "y", "z", "e">>,
     <<"d", "i", "a", "g", "n", "o", "s", "e">>,
     <<"l", "i", "n", "t">>}

\* mutant: a name is read-only when it is one of the prefixes
IsReadOnlyToolNameExact(name) == name \in ReadOnlyPrefixes

\* line 261-276: is_read_only_tool_name
IsReadOnlyToolName(name) == \E p \in ReadOnlyPrefixes : StartsWith(name, p)

\* Type hints are <<tag>> or <<tag, arguments>>.
IntT == <<"int">>
FloatT == <<"float">>
BoolT == <<"bool">>
StrT == <<"str">>
NoneT == <<"NoneType">>
\* an Enum subclass
EnumT == <<"Enum">>
\* a class named Context
ContextT == <<"Context">>
\* any other class
OtherT == <<"object">>
\* the builtin classes dict and list, not subscripted: get_origin gives None
BareDictT == <<"dict">>
BareListT == <<"list">>
UnionT(args) == <<"Union", args>>
OptionalT(type) == UnionT(<<type, NoneT>>)
ListT(args) == <<"list", args>>
DictT(args) == <<"dict", args>>
\* a generic alias of another origin, Set[str]
SetT(args) == <<"set", args>>

\* mutant: only the basic types are told apart
GetTypeSchemaBasic(hint) ==
    IF hint = IntT THEN [type |-> "integer"]
    ELSE IF hint = FloatT THEN [type |-> "number"]
    ELSE IF hint = BoolT THEN [type |-> "boolean"]
    ELSE [type |-> "string"]

\* line 204-252: get_type_schema
RECURSIVE GetTypeSchema(_)
GetTypeSchema(hint) ==
    IF hint = IntT THEN [type |-> "integer"]
    ELSE IF hint = FloatT THEN [type |-> "number"]
    ELSE IF hint = BoolT THEN [type |-> "boolean"]
    ELSE IF hint = StrT THEN [type |-> "string"]
    ELSE IF hint = EnumT THEN [type |-> "string", enum |-> "member values"]
    ELSE IF Len(hint) = 1 THEN [type |-> "string"]
    ELSE IF hint[1] = "Union"
    THEN LET args == SelectSeq(hint[2], LAMBDA a : a # NoneT) IN
         IF Len(args) = 1 THEN GetTypeSchema(args[1])
         ELSE [type |-> "string"]
    ELSE IF hint[1] = "dict"
    THEN IF hint[2] = <<>>
         THEN [type |-> "object", additionalProperties |-> [type |-> "true"]]
         ELSE [type |-> "object",
               additionalProperties |-> GetTypeSchema(hint[2][2])]
    ELSE IF hint[1] = "list"
    THEN IF hint[2] = <<>>
         THEN [type |-> "array", items |-> [type |-> "{}"]]
         ELSE [type |-> "array", items |-> GetTypeSchema(hint[2][1])]
    ELSE [type |-> "string"]

\* A declared parameter is [name, annotated, hint, default]; default is
\* "empty" (none), "value" (a plain default, None included),
\* "field_required" (Field(...)), "field_default" (Field(value)) or
\* "field_factory" (Field(default_factory=...)).
Param(name, annotated, hint, default) ==
    [name |-> name, annotated |-> annotated, hint |-> hint,
     default |-> default]

\* line 254-259: is_mcp_context_param
IsMcpContextParam(param) == param.name = "ctx" /\ param.hint[1] = "Context"

\* line 180-182, 280: hints.items(), the annotated parameters in the order
\* of their declaration
Hints(func) == SelectSeq(func.params, LAMBDA q : q.annotated)

\* line 280-289: properties
Properties(func) ==
    LET shown == SelectSeq(Hints(func), LAMBDA q : ~IsMcpContextParam(q)) IN
    [i \in DOMAIN shown |->
        [name |-> shown[i].name, schema |-> GetTypeSchema(shown[i].hint)]]

\* line 290-296: required
Required(func) ==
    LET shown == SelectSeq(Hints(func), LAMBDA q : ~IsMcpContextParam(q))
        needed == SelectSeq(shown, LAMBDA q :
                      q.default \in {"empty", "field_required"})
    IN  [i \in DOMAIN needed |-> needed[i].name]

\* line 298-304: tool_schema
ToolSchema(func) ==
    [name |-> Str(ToolNameChars(func.name)),
     description |-> func.doc,
     properties |-> Properties(func),
     required |-> Required(func),
     readOnlyHint |-> IsReadOnlyToolName(LowerAll(ToolNameChars(func.name)))]

\* A callable is [name, doc, async, params]: func.__name__, the first
\* paragraph of its docstring, whether it is declared async def, and its
\* declared parameters.
Callable(name, doc, async, params) ==
    [name |-> name, doc |-> doc, async |-> async, params |-> params]

Registered(descriptors) == {descriptors[i].name : i \in DOMAIN descriptors}

\* mutant: a second registration under a name is ignored
RegisterToolFirstWins(descriptors, func) ==
    IF ToolSchema(func).name \in Registered(descriptors)
    THEN descriptors
    ELSE Append(descriptors, ToolSchema(func))

\* mutant: a registration under an existing name moves the name to the end
RegisterToolMovesLast(descriptors, func) ==
    Append(SelectSeq(descriptors, LAMBDA d : d.name # ToolSchema(func).name),
           ToolSchema(func))

\* line 307: self.tools[tool_name] = tool_schema.  A dict keeps the position
\* of a key that is assigned again.
RegisterTool(descriptors, func) ==
    LET d == ToolSchema(func) IN
    IF d.name \in Registered(descriptors)
    THEN [i \in DOMAIN descriptors |->
             IF descriptors[i].name = d.name THEN d ELSE descriptors[i]]
    ELSE Append(descriptors, d)

\* line 308: self.tool_implementations[tool_name] = func
RegisterImplementation(implementations, func) ==
    LET name == ToolSchema(func).name IN
    [n \in DOMAIN implementations \cup {name} |->
        IF n = name THEN func ELSE implementations[n]]

\* the arguments of a tools/call: those the schema lists as required
\* ("required"), every property of the schema ("all", and "invalid" when the
\* values given for enum parameters are not member values), or none
Supplied(func, args) ==
    IF args = "required"
    THEN {Required(func)[i] : i \in DOMAIN Required(func)}
    ELSE IF args \in {"all", "invalid"}
    THEN {Properties(func)[i].name : i \in DOMAIN Properties(func)}
    ELSE {}

\* line 479-481: isinstance(arg_type, type) and issubclass(arg_type, Enum)
IsEnumParam(q) == q.annotated /\ q.hint = EnumT

\* line 481: arg_type(arg_value) raises ValueError for a value that is not a
\* member value
ConversionRaises(func, args) ==
    /\ args = "invalid"
    /\ \E i \in DOMAIN func.params :
          IsEnumParam(func.params[i])
          /\ func.params[i].name \in Supplied(func, args)

\* mutant: the supplied values are passed as they came
ConvertedArgsRaw(func, supplied) ==
    [i \in DOMAIN func.params |->
        LET q == func.params[i] IN
        IF q.name \in supplied THEN "raw"
        ELSE IF q.name = "ctx" THEN "None"
        ELSE IF q.default = "field_factory" THEN "factory()"
        ELSE IF q.default = "field_default" THEN "default"
        ELSE "absent"]

\* mutant: no placeholder is injected for ctx
ConvertedArgsNoContext(func, supplied) ==
    [i \in DOMAIN func.params |->
        LET q == func.params[i] IN
        IF q.name \in supplied
        THEN IF IsEnumParam(q) THEN "member" ELSE "raw"
        ELSE IF q.default = "field_factory" THEN "factory()"
        ELSE IF q.default = "field_default" THEN "default"
        ELSE "absent"]

\* line 472-497: converted_args, one entry per declared parameter: the
\* supplied value (an enum member for an enum parameter), None for a ctx that
\* was not supplied, the unwrapped default of a Field, or absent
ConvertedArgs(func, supplied) ==
    [i \in DOMAIN func.params |->
        LET q == func.params[i] IN
        IF q.name \in supplied
        THEN IF IsEnumParam(q) THEN "member" ELSE "raw"
        ELSE IF q.name = "ctx" THEN "None"
        ELSE IF q.default = "field_factory" THEN "factory()"
        ELSE IF q.default = "field_default" THEN "default"
        ELSE "absent"]

\* line 499: tool_func(**converted_args) binds when every parameter that is
\* absent has a default
Binds(func, converted) ==
    \A i \in DOMAIN func.params :
        converted[i] = "absent" => func.params[i].default # "empty"

\* what the callable's parameters are bound to: an absent argument takes the
\* parameter's default, which for Field(...) is the FieldInfo object
Received(func, converted) ==
    [i \in DOMAIN func.params |->
        [name |-> func.params[i].name,
         value |-> IF converted[i] # "absent" THEN converted[i]
                   ELSE IF func.params[i].default = "value" THEN "default"
                   ELSE "FieldInfo"]]

\* The callables of the deployment: list_items(max_results: int = 10) and
\* async start_run(ctx: Context, workflow_id: str = Field(...)).
list_items ==
    Callable(<<"l", "i", "s", "t", "_", "i", "t", "e", "m", "s">>, "List the items.", FALSE,
             <<Param("max_results", TRUE, IntT, "value")>>)

start_run ==
    Callable(
             <<"s", "t", "a", "r", "t", "_", "r", "u", "n">>, "Start a run.", TRUE,
             <<Param("ctx", TRUE, ContextT, "empty"),
               Param("workflow_id", TRUE, StrT, "field_required")>>)

Deployed == {list_items, start_run}

\* ------------------------------------------------------- the session store
\* The store is the record [kind, sessions, nextId].
Store == [kind |-> storeKind, sessions |-> sessions, nextId |-> nextId]

\* SessionStore.create_session: a fresh id; the no-op store records nothing
StoreCreate(st) ==
    [id |-> st.nextId,
     st |-> [st EXCEPT !.nextId = @ + 1,
                       !.sessions = IF st.kind = "Enforcing"
                                    THEN (st.nextId :> {}) @@ @
                                    ELSE @]]

\* SessionStore.get_session: the data, or absent; the no-op store answers
\* every id with its empty sentinel
StoreGet(st, sid) ==
    IF st.kind = "NoOp" THEN [found |-> TRUE, data |-> {}]
    ELSE IF sid \in DOMAIN st.sessions
         THEN [found |-> TRUE, data |-> st.sessions[sid]]
         ELSE [found |-> FALSE, data |-> {}]

\* SessionStore.delete_session: true iff a session was deleted; the no-op
\* store holds nothing and answers noopAnswer
StoreDelete(st, sid, noopAnswer) ==
    IF st.kind = "NoOp" THEN [ok |-> noopAnswer, st |-> st]
    ELSE IF sid \in DOMAIN st.sessions
         THEN [ok |-> TRUE,
               st |-> [st EXCEPT !.sessions =
                         [k \in DOMAIN st.sessions \ {sid} |-> st.sessions[k]]]]
         ELSE [ok |-> FALSE, st |-> st]

\* mutant: the isinstance test inverted
IsNoOpStoreInverted(st) == st.kind # "NoOp"

\* isinstance(self.session_store, NoOpSessionStore)
IsNoOpStore(st) == st.kind = "NoOp"

\* ------------------------------------------------- handle_request, by part
\* What a part of handle_request hands back: the response, the store after
\* it, the binding current_session_id holds when the body of the try block
\* is left, the collaborators called, and the values a tool read from the binding.
\* no tool was called
NoCall == [called |-> FALSE]

\* tool_func(**converted_args): the callable and what its parameters are
\* bound to
Invocation(func, args) == [called |-> TRUE, func |-> func, args |-> args]

Result(response, st, binding, called, read) ==
    [resp |-> response, st |-> st, ctx |-> binding, calls |-> called,
     seen |-> read, invoked |-> NoCall]

\* line 379-385: the value bound to current_session_id
BoundSid(sid) == IF Truthy(sid) THEN sid ELSE None

\* request_id = body.get('id') if isinstance(body, dict) else None
RequestIdOf(r) ==
    IF r.body = "object" /\ r.id # "absent" THEN r.id ELSE "null"

\* mutant: the top-level error response leaves the session id out
TopLevelExceptionNoSession(requestId, sid) ==
    CreateErrorResponse(-32000, "exception text", "-", requestId, <<>>, None, 0)

\* except Exception (line 526-528)
TopLevelException(requestId, sid) ==
    CreateErrorResponse(-32000, "exception text", "-", requestId, <<>>, sid, 0)

\* mutant: the DELETE check placed after the content-type check
IsSessionDeletionAfterContentType(r) ==
    r.verb = "DELETE" /\ Truthy(r.sid) /\ r.ctype = "application/json"

\* line 387-392: if event.get('httpMethod') == 'DELETE' and session_id
IsSessionDeletion(r) == r.verb = "DELETE" /\ Truthy(r.sid)

\* mutant: the deletion is reported but the session is kept
DeleteSessionKeeps(r, st, noopAnswer) ==
    LET d == StoreDelete(st, r.sid, noopAnswer) IN
    Result(BareResponse(IF d.ok THEN 204 ELSE 404), st, BoundSid(r.sid),
           <<"delete_session">>, {})

DeleteSession(r, st, noopAnswer) ==
    LET d == StoreDelete(st, r.sid, noopAnswer) IN
    Result(BareResponse(IF d.ok THEN 204 ELSE 404), d.st, BoundSid(r.sid),
           <<"delete_session">>, {})

\* line 403-410: if isinstance(body, dict) and 'id' not in body
IsNotification(r) == r.body = "object" /\ r.id = "absent"

\* line 412-418: the basic JSON-RPC structure
EnvelopeOk(r) ==
    r.body = "object" /\ r.jsonrpc = "2.0" /\ r.method # "absent"

\* mutant: initialize answers with the session id of the request header
InitializeEchoesHeader(r, st) ==
    LET c == StoreCreate(st) IN
    Result(CreateSuccessResponse("initialize", <<>>, r.id, r.sid), c.st, c.id,
           <<"create_session">>, {})

\* mutant: initialize answers with the session of the header when it exists
InitializeReuses(r, st) ==
    LET c == StoreCreate(st) IN
    IF Truthy(r.sid) /\ r.sid \in DOMAIN st.sessions
    THEN Result(CreateSuccessResponse("initialize", <<>>, r.id, r.sid), st,
                r.sid, <<"get_session">>, {})
    ELSE Result(CreateSuccessResponse("initialize", <<>>, r.id, c.id), c.st,
                c.id, <<"create_session">>, {})

\* line 427-438: initialize
Initialize(r, st) ==
    LET c == StoreCreate(st) IN
    Result(CreateSuccessResponse("initialize", <<>>, r.id, c.id), c.st, c.id,
           <<"create_session">>, {})

\* line 499: result = tool_func(**converted_args): the value of a plain
\* function, the coroutine object of an async one
CallResult(func) == IF func.async THEN "coroutine" ELSE "value"

\* mutant: the result is used as the call returned it
CompletedNever(result) == result

\* line 500-501: if inspect.isawaitable(result): result = asyncio.run(result)
Completed(result) == IF result = "coroutine" THEN "value" ELSE result

\* line 502: str(result)
StrOf(result) ==
    IF result = "coroutine" THEN "<coroutine object>" ELSE "str(value)"

\* str(e) of the exception a failing tool raises
ToolError == "tool error"

\* mutant: an unregistered tool is reported as an internal error
ToolsCallNotFoundInternal(r, st, registry, called) ==
    Result(IF r.params \notin Registered(registry.tools)
           THEN CreateErrorResponse(-32603, "Tool not found", r.params, r.id,
                                    <<>>, r.sid, 0)
           ELSE CreateSuccessResponse("content", <<StrOf("value")>>, r.id, r.sid),
           st, BoundSid(r.sid), called, {})

\* mutant: the exception text is logged but not put into the response
ToolsCallHidesError(r, st, registry, called) ==
    IF r.params \notin Registered(registry.tools)
    THEN Result(CreateErrorResponse(-32601, "Tool not found", r.params, r.id,
                                    <<>>, r.sid, 0),
                st, BoundSid(r.sid), called, {})
    ELSE IF r.will # "return"
    THEN Result(CreateErrorResponse(-32603, "Error executing tool", "-",
                                    r.id, <<>>, r.sid, 0),
                st, BoundSid(r.sid), Append(called, "tool"), {BoundSid(r.sid)})
    ELSE Result(CreateSuccessResponse("content", <<StrOf("value")>>, r.id,
                                      r.sid),
                st, BoundSid(r.sid), Append(called, "tool"), {BoundSid(r.sid)})

\* mutant: a tool that raised is called a second time
ToolsCallRetries(r, st, registry, called) ==
    LET func == registry.tool_implementations[r.params]
        converted == ConvertedArgs(func, Supplied(func, r.args))
    IN
    IF r.params \notin Registered(registry.tools)
    THEN Result(CreateErrorResponse(-32601, "Tool not found", r.params, r.id,
                                    <<>>, r.sid, 0),
                st, BoundSid(r.sid), called, {})
    ELSE IF \/ r.will = "convert" \/ ConversionRaises(func, r.args)
            \/ ~Binds(func, converted)
    THEN Result(CreateErrorResponse(-32603, "Error executing tool", ToolError,
                                    r.id, <<ToolError>>, r.sid, 0),
                st, BoundSid(r.sid), called, {})
    ELSE [Result(IF r.will = "raise"
                 THEN CreateErrorResponse(-32603, "Error executing tool",
                          ToolError, r.id, <<ToolError>>, r.sid, 0)
                 ELSE CreateSuccessResponse("content", <<StrOf("value")>>,
                                            r.id, r.sid),
                 st, BoundSid(r.sid),
                 IF r.will = "raise" THEN called \o <<"tool", "tool">>
                 ELSE Append(called, "tool"),
                 {BoundSid(r.sid)})
          EXCEPT !.invoked = Invocation(func, Received(func, converted))]

\* line 461-515: tools/call with params.  will = "convert" is a conversion
\* of the arguments or an unwrapping of a default that raises (line 472-497),
\* before the tool is called; will = "raise" is the tool's own exception,
\* which surfaces in the call of a plain function (line 499) and in the run
\* of a coroutine (line 501).  A call whose arguments do not bind raises
\* TypeError at line 499 before the callable is entered.
ToolsCall(r, st, registry, called) ==
    LET func == registry.tool_implementations[r.params]
        converted == ConvertedArgs(func, Supplied(func, r.args))
        raw == CallResult(func)
        final == Completed(raw)
        raises == r.will = "raise" /\ (~func.async \/ final # raw)
        entered == [Result(IF raises
                           THEN CreateErrorResponse(-32603,
                                    "Error executing tool", ToolError, r.id,
                                    <<ToolError>>, r.sid, 0)
                           ELSE CreateSuccessResponse("content",
                                    <<StrOf(final)>>, r.id, r.sid),
                           st, BoundSid(r.sid), Append(called, "tool"),
                           {BoundSid(r.sid)})
                    EXCEPT !.invoked = Invocation(func,
                                                  Received(func, converted))]
    IN
    IF r.params \notin Registered(registry.tools)
    THEN Result(CreateErrorResponse(-32601, "Tool not found", r.params, r.id,
                                    <<>>, r.sid, 0),
                st, BoundSid(r.sid), called, {})
    ELSE IF \/ r.will = "convert" \/ ConversionRaises(func, r.args)
            \/ ~Binds(func, converted)
    THEN Result(CreateErrorResponse(-32603, "Error executing tool", ToolError,
                                    r.id, <<ToolError>>, r.sid, 0),
                st, BoundSid(r.sid), called, {})
    ELSE entered

\* line 454-524: dispatch by method, after the session check
Dispatch(r, st, registry, called) ==
    IF r.method = "tools/list"
    THEN Result(CreateSuccessResponse("tools", registry.tools, r.id, r.sid),
                st, BoundSid(r.sid), called, {})
    ELSE IF r.method = "tools/call" /\ r.params # "none"
    THEN ToolsCall(r, st, registry, called)
    ELSE IF r.method = "ping"
    THEN Result(CreateSuccessResponse("empty", <<>>, r.id, r.sid),
                st, BoundSid(r.sid), called, {})
    ELSE Result(CreateErrorResponse(-32601, "Method not found", r.method, r.id,
                                    <<>>, r.sid, 0),
                st, BoundSid(r.sid), called, {})

\* mutant: an unknown session id is adopted instead of rejected
SessionCheckAdopts(r, st, registry) ==
    IF Truthy(r.sid) /\ ~StoreGet(st, r.sid).found
    THEN Dispatch(r, [st EXCEPT !.sessions = (r.sid :> {}) @@ @], registry,
                  <<"get_session">>)
    ELSE Dispatch(r, st, registry, <<>>)

\* mutant: the method is looked at before the session
SessionCheckAfterMethod(r, st, registry) ==
    IF \/ r.method \notin {"initialize", "tools/list", "tools/call", "ping"}
       \/ r.method = "tools/call" /\ r.params \notin Registered(registry.tools)
    THEN Dispatch(r, st, registry, <<>>)
    ELSE IF Truthy(r.sid)
    THEN IF ~StoreGet(st, r.sid).found
         THEN Result(CreateErrorResponse(-32000, "Invalid or expired session",
                                         "-", r.id, <<>>, None, 404),
                     st, BoundSid(r.sid), <<"get_session">>, {})
         ELSE Dispatch(r, st, registry, <<"get_session">>)
    ELSE IF r.method # "initialize" /\ ~IsNoOpStore(st)
    THEN Result(CreateErrorResponse(-32000, "Session required", "-", r.id,
                                    <<>>, None, 400),
                st, BoundSid(r.sid), <<>>, {})
    ELSE Dispatch(r, st, registry, <<>>)

\* mutant: a session id is required whatever the store
SessionCheckStrict(r, st, registry) ==
    IF Truthy(r.sid)
    THEN IF ~StoreGet(st, r.sid).found
         THEN Result(CreateErrorResponse(-32000, "Invalid or expired session",
                                         "-", r.id, <<>>, None, 404),
                     st, BoundSid(r.sid), <<"get_session">>, {})
         ELSE Dispatch(r, st, registry, <<"get_session">>)
    ELSE Result(CreateErrorResponse(-32000, "Session required", "-", r.id,
                                    <<>>, None, 400),
                st, BoundSid(r.sid), <<>>, {})

\* line 440-452: validate the session if one is provided, require one if the
\* store is not the no-op store
SessionCheck(r, st, registry) ==
    IF Truthy(r.sid)
    THEN IF ~StoreGet(st, r.sid).found
         THEN Result(CreateErrorResponse(-32000, "Invalid or expired session",
                                         "-", r.id, <<>>, None, 404),
                     st, BoundSid(r.sid), <<"get_session">>, {})
         ELSE Dispatch(r, st, registry, <<"get_session">>)
    ELSE IF r.method # "initialize" /\ ~IsNoOpStore(st)
    THEN Result(CreateErrorResponse(-32000, "Session required", "-", r.id,
                                    <<>>, None, 400),
                st, BoundSid(r.sid), <<>>, {})
    ELSE Dispatch(r, st, registry, <<>>)

\* line 423-425: JSONRPCRequest.model_validate(body): params is an object or
\* null
SchemaOk(r) == r.params # "array"

\* line 423-438: validation of the request, then initialize.  A
\* create_session that raises leaves the try block by the top-level handler.
ValidateAndInitialize(r, st, registry, createFails) ==
    IF ~SchemaOk(r)
    THEN Result(TopLevelException(r.id, r.sid), st, BoundSid(r.sid), <<>>, {})
    ELSE IF r.method = "initialize"
    THEN IF createFails
         THEN Result(TopLevelException(r.id, r.sid), st, BoundSid(r.sid),
                     <<"create_session", "raise">>, {})
         ELSE Initialize(r, st)
    ELSE SessionCheck(r, st, registry)

\* mutant: the envelope is validated before the notification check
ParseBodyEnvelopeFirst(r, st, registry, createFails) ==
    IF r.ctype # "application/json"
    THEN Result(CreateErrorResponse(-32700, "Unsupported Media Type", "-",
                                    "null", <<>>, None, 0),
                st, BoundSid(r.sid), <<>>, {})
    ELSE IF r.body \in {"missing", "null"}
    THEN Result(TopLevelException("null", r.sid), st, BoundSid(r.sid), <<>>,
                {})
    ELSE IF r.body = "invalid" \/ ~EnvelopeOk(r)
    THEN Result(CreateErrorResponse(-32700, "Parse error", "-", RequestIdOf(r),
                                    <<>>, None, 0),
                st, BoundSid(r.sid), <<>>, {})
    ELSE IF IsNotification(r)
    THEN Result(NotificationResponse, st, BoundSid(r.sid), <<>>, {})
    ELSE ValidateAndInitialize(r, st, registry, createFails)

\* mutant: a notification is processed like a request and then answered 202
ParseBodyNotifyLate(r, st, registry, createFails) ==
    IF r.ctype # "application/json"
    THEN Result(CreateErrorResponse(-32700, "Unsupported Media Type", "-",
                                    "null", <<>>, None, 0),
                st, BoundSid(r.sid), <<>>, {})
    ELSE IF r.body \in {"missing", "null"}
    THEN Result(TopLevelException("null", r.sid), st, BoundSid(r.sid), <<>>,
                {})
    ELSE IF r.body = "invalid"
    THEN Result(CreateErrorResponse(-32700, "Parse error", "-", "null", <<>>,
                                    None, 0),
                st, BoundSid(r.sid), <<>>, {})
    ELSE IF ~EnvelopeOk(r)
    THEN IF IsNotification(r)
         THEN Result(NotificationResponse, st, BoundSid(r.sid), <<>>, {})
         ELSE Result(CreateErrorResponse(-32700, "Parse error", "-",
                                         RequestIdOf(r), <<>>, None, 0),
                     st, BoundSid(r.sid), <<>>, {})
    ELSE LET o == ValidateAndInitialize(r, st, registry, createFails) IN
         IF IsNotification(r)
         THEN Result(NotificationResponse, o.st, o.ctx, o.calls, o.seen)
         ELSE o

\* mutant: the content type is not checked
ParseBodyAnyContentType(r, st, registry, createFails) ==
    IF r.body \in {"missing", "null"}
    THEN Result(TopLevelException("null", r.sid), st, BoundSid(r.sid), <<>>, {})
    ELSE IF r.body = "invalid"
    THEN Result(CreateErrorResponse(-32700, "Parse error", "-", "null", <<>>,
                                    None, 0),
                st, BoundSid(r.sid), <<>>, {})
    ELSE IF IsNotification(r)
    THEN Result(NotificationResponse, st, BoundSid(r.sid), <<>>, {})
    ELSE IF ~EnvelopeOk(r)
    THEN Result(CreateErrorResponse(-32700, "Parse error", "-", RequestIdOf(r),
                                    <<>>, None, 0),
                st, BoundSid(r.sid), <<>>, {})
    ELSE ValidateAndInitialize(r, st, registry, createFails)

\* mutant: the envelope is left to the dispatch
ParseBodyNoEnvelope(r, st, registry, createFails) ==
    IF r.ctype # "application/json"
    THEN Result(CreateErrorResponse(-32700, "Unsupported Media Type", "-",
                                    "null", <<>>, None, 0),
                st, BoundSid(r.sid), <<>>, {})
    ELSE IF r.body \in {"missing", "null"}
    THEN Result(TopLevelException("null", r.sid), st, BoundSid(r.sid), <<>>, {})
    ELSE IF r.body = "invalid"
    THEN Result(CreateErrorResponse(-32700, "Parse error", "-", "null", <<>>,
                                    None, 0),
                st, BoundSid(r.sid), <<>>, {})
    ELSE IF IsNotification(r)
    THEN Result(NotificationResponse, st, BoundSid(r.sid), <<>>, {})
    ELSE IF r.body # "object"
    THEN Result(CreateErrorResponse(-32700, "Parse error", "-", RequestIdOf(r),
                                    <<>>, None, 0),
                st, BoundSid(r.sid), <<>>, {})
    ELSE ValidateAndInitialize(r, st, registry, createFails)

\* line 394-425: content type, body, notification, envelope
ParseBody(r, st, registry, createFails) ==
    IF r.ctype # "application/json"
    THEN Result(CreateErrorResponse(-32700, "Unsupported Media Type", "-",
                                    "null", <<>>, None, 0),
                st, BoundSid(r.sid), <<>>, {})
    ELSE IF r.body \in {"missing", "null"}
    THEN Result(TopLevelException("null", r.sid), st, BoundSid(r.sid), <<>>, {})
    ELSE IF r.body = "invalid"
    THEN Result(CreateErrorResponse(-32700, "Parse error", "-", "null", <<>>,
                                    None, 0),
                st, BoundSid(r.sid), <<>>, {})
    ELSE IF IsNotification(r)
    THEN Result(NotificationResponse, st, BoundSid(r.sid), <<>>, {})
    ELSE IF ~EnvelopeOk(r)
    THEN Result(CreateErrorResponse(-32700, "Parse error", "-", RequestIdOf(r),
                                    <<>>, None, 0),
                st, BoundSid(r.sid), <<>>, {})
    ELSE ValidateAndInitialize(r, st, registry, createFails)

\* line 371-528: the try block of handle_request.  entry is the binding the
\* thread holds when handle_request is entered.
TryBlock(r, st, registry, entry, noopAnswer, createFails) ==
    IF r.headers = "null"
    THEN Result(TopLevelException("null", None), st, entry, <<>>, {})
    ELSE IF IsSessionDeletion(r)
    THEN DeleteSession(r, st, noopAnswer)
    ELSE ParseBody(r, st, registry, createFails)

\* mutant: no finally clause, the binding is left as it is
FinallyBindingKept(binding) == binding

\* line 529-531: finally: current_session_id.set(None)
FinallyBinding(binding) == None

\* mutant: a module-level global instead of a ContextVar
CtxSetShared(c, t, v) == [u \in DOMAIN c |-> v]

\* ContextVar.set / ContextVar.get in the context of thread t
CtxSet(c, t, v) == [c EXCEPT ![t] = v]
CtxGet(c, t) == c[t]

\* --------------------------------------------------------------- the state
\* no helper has been applied on its own
NoProbe == [fn |-> "-"]

\* no session helper was called
NoHelper == [op |-> "-"]

Init ==
    /\ storeKind \in {"NoOp", "Enforcing"}
    /\ sessions = <<>>
    /\ nextId = 1
    /\ tools = <<>>
    /\ tool_implementations = <<>>
    /\ ctx = [t \in Threads |-> None]
    /\ pc = [t \in Threads |-> "idle"]
    /\ req = [t \in Threads |-> NoReq]
    /\ resp = [t \in Threads |-> NoResp]
    /\ calls = [t \in Threads |-> <<>>]
    /\ seen = [t \in Threads |-> {}]
    /\ invoked = [t \in Threads |-> NoCall]
    /\ helper = [t \in Threads |-> NoHelper]
    /\ issued = {}
    /\ removed = {}
    /\ replaced = {}
    /\ probe = NoProbe

\* the name func takes from another callable
ReplacedBy(implementations, func) ==
    LET name == ToolSchema(func).name IN
    IF name \in DOMAIN implementations /\ implementations[name] # func
    THEN {name} ELSE {}

\* the registry the handler reads
Registry == [tools |-> tools, tool_implementations |-> tool_implementations]

\* tools are registered when the handler module is imported (lambda_handler.py),
\* while no request is being handled
Register(func) ==
    /\ \A t \in Threads : pc[t] = "idle"
    /\ tools' = RegisterTool(tools, func)
    /\ tool_implementations' = RegisterImplementation(tool_implementations, func)
    /\ replaced' = replaced \cup ReplacedBy(tool_implementations, func)
    /\ UNCHANGED <<probe, storeKind, sessions, nextId, ctx, pc, req, resp,
                   calls, seen, issued, removed, invoked, helper>>

\* session ids handed out by a successful initialize
IssuedBy(o) ==
    IF o.resp.result = "initialize" THEN {o.resp.sessionHeader} ELSE {}

\* session ids a DELETE reported deleted
RemovedBy(r, o) ==
    IF o.calls = <<"delete_session">> /\ o.resp.statusCode = 204
    THEN {r.sid} ELSE {}

\* mutant: a tools/call empties the registry
RegistryAfterRequestCleared(registry, r) ==
    IF r.method = "tools/call"
    THEN [tools |-> <<>>, tool_implementations |-> <<>>]
    ELSE registry

\* line 366-531: handle_request reads self.tools (line 457, 466) and
\* self.tool_implementations (line 474) and assigns neither
RegistryAfterRequest(registry, r) == registry

\* handle_request, from entry to return, in thread t
Handle(t, r, noopAnswer, createFails) ==
    LET o == TryBlock(r, Store, Registry, CtxGet(ctx, t), noopAnswer,
                      createFails) IN
    /\ o.st.nextId <= MaxSessions + 1
    /\ pc' = [pc EXCEPT ![t] = "returned"]
    /\ req' = [req EXCEPT ![t] = r]
    /\ resp' = [resp EXCEPT ![t] = o.resp]
    /\ calls' = [calls EXCEPT ![t] = o.calls]
    /\ seen' = [seen EXCEPT ![t] = o.seen]
    /\ sessions' = o.st.sessions
    /\ nextId' = o.st.nextId
    /\ ctx' = CtxSet(ctx, t, FinallyBinding(o.ctx))
    /\ issued' = issued \cup IssuedBy(o)
    /\ removed' = removed \cup RemovedBy(r, o)
    /\ invoked' = [invoked EXCEPT ![t] = o.invoked]
    /\ tools' = RegistryAfterRequest(Registry, r).tools
    /\ tool_implementations' =
          RegistryAfterRequest(Registry, r).tool_implementations
    /\ UNCHANGED <<probe, storeKind, replaced, helper>>

\* what delete_session of the no-op store may answer for r
NoOpAnswers(r) ==
    IF storeKind = "NoOp" /\ IsSessionDeletion(r) THEN BOOLEAN ELSE {FALSE}

\* whether create_session of the durable store may raise for r
CreateFaults(r) ==
    IF storeKind = "Enforcing" /\ r.method = "initialize"
    THEN BOOLEAN ELSE {FALSE}

HandleRequest(t) ==
    /\ pc[t] = "idle"
    /\ \E r \in Requests :
          \E a \in NoOpAnswers(r), f \in CreateFaults(r) : Handle(t, r, a, f)

\* lambda_handler hands the response to the runtime, which then delivers the
\* next event
Reply(t) ==
    /\ pc[t] = "returned"
    /\ pc' = [pc EXCEPT ![t] = "idle"]
    /\ req' = [req EXCEPT ![t] = NoReq]
    /\ resp' = [resp EXCEPT ![t] = NoResp]
    /\ calls' = [calls EXCEPT ![t] = <<>>]
    /\ seen' = [seen EXCEPT ![t] = {}]
    /\ invoked' = [invoked EXCEPT ![t] = NoCall]
    /\ helper' = [helper EXCEPT ![t] = NoHelper]
    /\ UNCHANGED <<probe, storeKind, sessions, nextId, tools,
                   tool_implementations, ctx, issued, removed, replaced>>

Next ==
    \/ \E func \in Deployed : Register(func)
    \/ HandleRequest(MainThread)
    \/ Reply(MainThread)

Spec == Init /\ [][Next]_vars

\* ------------------------------------------- concurrent invocations, by step
\* The hosting environment may run handle_request in several threads at once.
\* Each thread's invocation is cut where it touches what the threads share:
\* the binding (Begin, Finally), the store (Run) and the tool's read of the
\* binding (ToolRun).
ConcRequests ==
    {r \in Requests :
        /\ r.headers = "dict" /\ r.verb = "POST"
        /\ r.ctype = "application/json" /\ r.body = "object"
        /\ r.id = "r1" /\ r.jsonrpc = "2.0"
        /\ \/ r.method = "initialize"
           \/ r.method = "tools/call" /\ r.params = "listItems"
                                      /\ r.will = "return"}

\* line 375-385: the headers are read and the binding is set
BeginWith(t, events) ==
    /\ pc[t] = "idle"
    /\ \E r \in events :
        /\ req' = [req EXCEPT ![t] = r]
        /\ ctx' = IF r.headers = "null" THEN ctx
                  ELSE CtxSet(ctx, t, BoundSid(r.sid))
    /\ pc' = [pc EXCEPT ![t] = "bound"]
    /\ UNCHANGED <<probe, storeKind, sessions, nextId, tools,
                   tool_implementations, resp, calls, seen, issued, removed,
                   replaced, invoked, helper>>

Begin(t) == BeginWith(t, ConcRequests)

\* the request reaches the call of a registered tool
ReachesTool(o) == Len(o.calls) > 0 /\ o.calls[Len(o.calls)] = "tool"

\* line 387-469: from the DELETE check up to the response, or up to the call
\* of the tool
Run(t) ==
    /\ pc[t] = "bound"
    /\ \E a \in NoOpAnswers(req[t]), f \in CreateFaults(req[t]) :
        LET o == TryBlock(req[t], Store, Registry, CtxGet(ctx, t), a, f) IN
        /\ o.st.nextId <= MaxSessions + 1
        /\ sessions' = o.st.sessions
        /\ nextId' = o.st.nextId
        /\ issued' = issued \cup IssuedBy(o)
        /\ removed' = removed \cup RemovedBy(req[t], o)
        /\ IF ReachesTool(o)
           THEN /\ pc' = [pc EXCEPT ![t] = "tool"]
                /\ calls' = [calls EXCEPT ![t] = SubSeq(o.calls, 1, Len(o.calls) - 1)]
                /\ UNCHANGED <<resp, ctx>>
           ELSE /\ pc' = [pc EXCEPT ![t] = "finally"]
                /\ calls' = [calls EXCEPT ![t] = o.calls]
                /\ resp' = [resp EXCEPT ![t] = o.resp]
                /\ ctx' = IF o.resp.result = "initialize"
                          THEN CtxSet(ctx, t, o.ctx) ELSE ctx
    /\ UNCHANGED <<probe, storeKind, tools, tool_implementations, req, seen,
                   invoked, replaced, helper>>

\* line 471-515: the tool runs and reads current_session_id (get_session,
\* set_session, line 119 and 135)
ToolRun(t) ==
    LET o == ToolsCall(req[t], Store, Registry, calls[t]) IN
    /\ pc[t] = "tool"
    /\ pc' = [pc EXCEPT ![t] = "finally"]
    /\ seen' = [seen EXCEPT ![t] = {CtxGet(ctx, t)}]
    /\ resp' = [resp EXCEPT ![t] = o.resp]
    /\ calls' = [calls EXCEPT ![t] = o.calls]
    /\ invoked' = [invoked EXCEPT ![t] = o.invoked]
    /\ UNCHANGED <<probe, storeKind, sessions, nextId, tools,
                   tool_implementations, ctx, req, issued, removed, replaced,
                   helper>>

\* line 529-531: the binding is cleared and handle_request returns
Finally(t) ==
    /\ pc[t] = "finally"
    /\ pc' = [pc EXCEPT ![t] = "returned"]
    /\ ctx' = CtxSet(ctx, t, FinallyBinding(CtxGet(ctx, t)))
    /\ UNCHANGED <<probe, storeKind, sessions, nextId, tools,
                   tool_implementations, req, resp, calls, seen, issued,
                   removed, replaced, invoked, helper>>

NextConc ==
    \/ \E func \in Deployed : Register(func)
    \/ \E t \in Threads : Begin(t)
    \/ \E t \in Threads : Run(t)
    \/ \E t \in Threads : ToolRun(t)
    \/ \E t \in Threads : Finally(t)
    \/ \E t \in Threads : Reply(t)

SpecConc == Init /\ [][NextConc]_vars

\* ------------------------------------------- the session helpers, by step
\* A running tool may call the handler's get_session, set_session and
\* update_session.  Each is cut where it reads the binding or calls the
\* store, so that two invocations interleave between the fetch and the write
\* of update_session.
\* SessionStore.update_session: the whole data of the session is replaced;
\* false when the durable store holds no such session; the no-op store
\* stores nothing and answers true
StoreUpdate(st, sid, data) ==
    IF st.kind = "NoOp" THEN [ok |-> TRUE, st |-> st]
    ELSE IF sid \in DOMAIN st.sessions
         THEN [ok |-> TRUE, st |-> [st EXCEPT !.sessions[sid] = data]]
         ELSE [ok |-> FALSE, st |-> st]

\* mutant: the binding is one variable shared by the threads
CurrentSessionIdShared(c, t) == c[MainThread]

\* line 119, 135: session_id = current_session_id.get()
CurrentSessionId(c, t) == CtxGet(c, t)

\* line 112-123: get_session: None without a binding, else the store's
\* answer wrapped in SessionData
get_session(sid, st) ==
    IF ~Truthy(sid) THEN [found |-> FALSE, data |-> {}, called |-> <<>>]
    ELSE [found |-> StoreGet(st, sid).found, data |-> StoreGet(st, sid).data,
          called |-> <<"get_session">>]

\* mutant: the data written is added to the data stored
set_session_merges(sid, st, data) ==
    IF ~Truthy(sid) THEN [ok |-> FALSE, st |-> st, called |-> <<>>]
    ELSE LET merged == IF sid \in DOMAIN st.sessions
                       THEN st.sessions[sid] \cup data ELSE data
             u == StoreUpdate(st, sid, merged)
         IN  [ok |-> u.ok, st |-> u.st, called |-> <<"update_session">>]

\* line 125-138: set_session: False without a binding, else the store's
\* update_session with the whole data
set_session(sid, st, data) ==
    IF ~Truthy(sid) THEN [ok |-> FALSE, st |-> st, called |-> <<>>]
    ELSE LET u == StoreUpdate(st, sid, data) IN
         [ok |-> u.ok, st |-> u.st, called |-> <<"update_session">>]

\* what a helper returned
Helper(op, sid, data, result) ==
    [op |-> op, sid |-> sid, data |-> data, result |-> result]

\* the tool of thread t calls get_session
GetSessionCall(t) ==
    LET sid == CurrentSessionId(ctx, t)
        g == get_session(sid, Store)
    IN
    /\ pc[t] = "tool"
    /\ pc' = [pc EXCEPT ![t] = "done"]
    /\ helper' = [helper EXCEPT ![t] =
                    Helper("get_session", sid, g.data,
                           IF g.found THEN "SessionData" ELSE "None")]
    /\ seen' = [seen EXCEPT ![t] = @ \cup {sid}]
    /\ calls' = [calls EXCEPT ![t] = @ \o g.called]
    /\ UNCHANGED <<probe, storeKind, sessions, nextId, tools,
                   tool_implementations, ctx, req, resp, issued, removed,
                   replaced, invoked>>

\* the tool of thread t calls set_session with data of its own
SetSessionCall(t) ==
    LET sid == CurrentSessionId(ctx, t)
        u == set_session(sid, Store, {t})
    IN
    /\ pc[t] = "tool"
    /\ pc' = [pc EXCEPT ![t] = "done"]
    /\ helper' = [helper EXCEPT ![t] =
                    Helper("set_session", sid, {t},
                           IF u.ok THEN "True" ELSE "False")]
    /\ seen' = [seen EXCEPT ![t] = @ \cup {sid}]
    /\ calls' = [calls EXCEPT ![t] = @ \o u.called]
    /\ sessions' = u.st.sessions
    /\ UNCHANGED <<probe, storeKind, nextId, tools, tool_implementations,
                   ctx, req, resp, issued, removed, replaced, invoked>>

\* line 149-154: update_session fetches the session and the updater changes
\* the fetched data in place, here by adding a key of the thread's own
UpdateSessionFetch(t) ==
    LET sid == CurrentSessionId(ctx, t)
        g == get_session(sid, Store)
    IN
    /\ pc[t] = "tool"
    /\ IF g.found
       THEN /\ pc' = [pc EXCEPT ![t] = "fetched"]
            /\ helper' = [helper EXCEPT ![t] =
                            Helper("update_session", sid, g.data \cup {t},
                                   "pending")]
       ELSE /\ pc' = [pc EXCEPT ![t] = "done"]
            /\ helper' = [helper EXCEPT ![t] =
                            Helper("update_session", sid, {}, "False")]
    /\ seen' = [seen EXCEPT ![t] = @ \cup {sid}]
    /\ calls' = [calls EXCEPT ![t] = @ \o g.called]
    /\ UNCHANGED <<probe, storeKind, sessions, nextId, tools,
                   tool_implementations, ctx, req, resp, issued, removed,
                   replaced, invoked>>

\* line 156-157: update_session writes the changed data back with
\* set_session
UpdateSessionWrite(t) ==
    LET sid == CurrentSessionId(ctx, t)
        u == set_session(sid, Store, helper[t].data)
    IN
    /\ pc[t] = "fetched"
    /\ pc' = [pc EXCEPT ![t] = "done"]
    /\ helper' = [helper EXCEPT ![t].result =
                    IF u.ok THEN "True" ELSE "False"]
    /\ seen' = [seen EXCEPT ![t] = @ \cup {sid}]
    /\ calls' = [calls EXCEPT ![t] = @ \o u.called]
    /\ sessions' = u.st.sessions
    /\ UNCHANGED <<probe, storeKind, nextId, tools, tool_implementations,
                   ctx, req, resp, issued, removed, replaced, invoked>>

\* line 499-503: the tool returns and the response is built
ToolReturn(t) ==
    LET o == ToolsCall(req[t], Store, Registry, calls[t]) IN
    /\ pc[t] = "done"
    /\ pc' = [pc EXCEPT ![t] = "finally"]
    /\ resp' = [resp EXCEPT ![t] = o.resp]
    /\ calls' = [calls EXCEPT ![t] = o.calls]
    /\ invoked' = [invoked EXCEPT ![t] = o.invoked]
    /\ UNCHANGED <<probe, storeKind, sessions, nextId, tools,
                   tool_implementations, ctx, req, seen, issued, removed,
                   replaced, helper>>

\* initialize without a session id, and tools/call of listItems with any
SessionRequests ==
    {r \in ConcRequests : r.method = "initialize" => r.sid = None}

NextSession ==
    \/ Register(list_items)
    \/ \E t \in Threads : BeginWith(t, SessionRequests)
    \/ \E t \in Threads : Run(t)
    \/ \E t \in Threads : GetSessionCall(t)
    \/ \E t \in Threads : SetSessionCall(t)
    \/ \E t \in Threads : UpdateSessionFetch(t)
    \/ \E t \in Threads : UpdateSessionWrite(t)
    \/ \E t \in Threads : ToolReturn(t)
    \/ \E t \in Threads : Finally(t)
    \/ \E t \in Threads : Reply(t)

SpecSession == Init /\ [][NextSession]_vars

\* ------------------------------------------------- the error codec, applied
\* _create_error_response is a function of its arguments alone; it is applied
\* here to the codes of the mapping, to codes outside it, and to the
\* status_code arguments of its call sites (none, 400, 404).
ErrorCodes == {-32700, -32600, -32601, -32602, -32603, -32000, -32001, 1}

StatusOverrides == {0, 400, 404}

ApplyCreateErrorResponse ==
    /\ \E code \in ErrorCodes, status \in StatusOverrides,
          requestId \in {"null", "r1"}, sid \in HeaderSids :
          probe' = [fn |-> "_create_error_response", code |-> code,
                    status |-> status,
                    out |-> CreateErrorResponse(code, "message", "-",
                                                requestId, <<>>, sid, status)]
    /\ UNCHANGED <<storeKind, sessions, nextId, tools, tool_implementations,
                   ctx, pc, req, resp, calls, seen, issued, removed,
                   replaced, invoked, helper>>

\* The type hints get_type_schema is applied to: the classes, typing.List and
\* typing.Dict without arguments, and the generic forms over them, nested
\* twice.
AtomicHints ==
    {IntT, FloatT, BoolT, StrT, EnumT, OtherT, BareDictT, BareListT}

GenericHints(S) ==
    {OptionalT(a) : a \in S} \cup {ListT(<<a>>) : a \in S}
    \cup {DictT(<<StrT, a>>) : a \in S} \cup {SetT(<<a>>) : a \in S}
    \cup {UnionT(<<a, IF a = IntT THEN StrT ELSE IntT>>) : a \in S}
    \cup {UnionT(<<a, IF a = IntT THEN StrT ELSE IntT, NoneT>>) : a \in S}

TypeHints ==
    LET flat == AtomicHints \cup {ListT(<<>>), DictT(<<>>)}
        once == GenericHints(flat)
    IN  flat \cup once \cup GenericHints(once)

ApplyGetTypeSchema ==
    /\ \E hint \in TypeHints :
          probe' = [fn |-> "get_type_schema", hint |-> hint,
                    out |-> GetTypeSchema(hint)]
    /\ UNCHANGED <<storeKind, sessions, nextId, tools, tool_implementations,
                   ctx, pc, req, resp, calls, seen, issued, removed,
                   replaced, invoked, helper>>

NextCodec ==
    \/ ApplyCreateErrorResponse
    \/ ApplyGetTypeSchema

SpecCodec == Init /\ [][NextCodec]_vars

\* ------------------------------------------------ the registry, decorated
\* Callables of several shapes are decorated in any order, two of them under
\* the same tool name, and the registry is read by tools/list and tools/call.
\* async list_x(ctx: Context, reference_store_id: str = Field(...),
\*              next_token: Optional[str] = Field(None))
list_x ==
    Callable(<<"l", "i", "s", "t", "_", "x">>, "List x.", TRUE,
             <<Param("ctx", TRUE, ContextT, "empty"),
               Param("reference_store_id", TRUE, StrT, "field_required"),
               Param("next_token", TRUE, OptionalT(StrT), "field_default")>>)

\* list_X(search_terms: Optional[List[str]] = None)
list_X ==
    Callable(<<"l", "i", "s", "t", "_", "X">>, "Search x.", FALSE,
             <<Param("search_terms", TRUE, OptionalT(ListT(<<StrT>>)),
                     "value")>>)

\* start_aho_run(workflow_id: str)
start_aho_run ==
    Callable(
             <<"s", "t", "a", "r", "t", "_", "a", "h", "o", "_", "r", "u", "n">>,
             "Start a run.", FALSE,
             <<Param("workflow_id", TRUE, StrT, "empty")>>)

\* cancel_x(run_id, force: bool = Field(default_factory=bool))
cancel_x ==
    Callable(<<"c", "a", "n", "c", "e", "l", "_", "x">>, "Cancel x.", FALSE,
             <<Param("run_id", FALSE, <<"-">>, "empty"),
               Param("force", TRUE, BoolT, "field_factory")>>)

\* tail_x(terms: Optional[List[str]])
tail_x ==
    Callable(<<"t", "a", "i", "l", "_", "x">>, "Tail x.", FALSE,
             <<Param("terms", TRUE, OptionalT(ListT(<<StrT>>)), "empty")>>)

\* Get_x(ctx: str, mode: Mode = Mode.A)
Get_x ==
    Callable(<<"G", "e", "t", "_", "x">>, "Get x.", FALSE,
             <<Param("ctx", TRUE, StrT, "empty"),
               Param("mode", TRUE, EnumT, "value")>>)

Callables == {list_x, list_X, start_aho_run, cancel_x, tail_x, Get_x}

ToolKeys == {ToolSchema(func).name : func \in Callables}

\* the tool names of the callables that declare an enum parameter
EnumToolKeys ==
    {ToolSchema(func).name :
        func \in {g \in Callables :
                     \E i \in DOMAIN g.params : IsEnumParam(g.params[i])}}

\* tools/list, and tools/call of every tool name with the required arguments
\* or with none, and of the tools with enum parameters with every argument,
\* the enum values being member values or not
ToolRequests ==
    {[headers |-> "dict", verb |-> "POST", sid |-> None,
      ctype |-> "application/json", body |-> "object", id |-> "r1",
      jsonrpc |-> "2.0", method |-> "tools/list", params |-> "none",
      will |-> "-", args |-> "-"]}
    \cup
    {[headers |-> "dict", verb |-> "POST", sid |-> None,
      ctype |-> "application/json", body |-> "object", id |-> "r1",
      jsonrpc |-> "2.0", method |-> "tools/call", params |-> n,
      will |-> "return", args |-> a] :
        n \in ToolKeys, a \in {"required", "none"}}
    \cup
    {[headers |-> "dict", verb |-> "POST", sid |-> None,
      ctype |-> "application/json", body |-> "object", id |-> "r1",
      jsonrpc |-> "2.0", method |-> "tools/call", params |-> n,
      will |-> "return", args |-> a] :
        n \in EnumToolKeys, a \in {"all", "invalid"}}

HandleToolRequest(t) ==
    /\ pc[t] = "idle"
    /\ \E r \in ToolRequests : Handle(t, r, FALSE, FALSE)

NextTools ==
    \/ \E func \in Callables : Register(func)
    \/ HandleToolRequest(MainThread)
    \/ Reply(MainThread)

SpecTools == Init /\ [][NextTools]_vars

\* ================================================================ the claims
\* thread t has returned from handle_request: req[t] is the event it handled
\* and resp[t] the response it returned
Returned(t) == pc[t] = "returned"

\* the step in which thread t handles an event, from entry to return
Handles(t) == pc[t] = "idle" /\ pc'[t] = "returned"

\* r passes the transport checks: its body is read and parsed as a JSON-RPC
\* request with an id, a version of 2.0, a method and params that are an
\* object or absent
WellFormed(r) ==
    /\ r.headers = "dict" /\ r.ctype = "application/json"
    /\ r.body = "object" /\ r.id # "absent"
    /\ r.jsonrpc = "2.0" /\ r.method # "absent"
    /\ r.params # "array"

\* a JSON-RPC request (not a session deletion) other than initialize
MethodCall(r) ==
    WellFormed(r) /\ r.method # "initialize"
    /\ ~(r.verb = "DELETE" /\ Truthy(r.sid))

\* the response p is what dispatching r to its method gives under registry g
AnswersMethod(r, p, called, g) ==
    /\ p.message \notin {"Session required", "Invalid or expired session"}
    /\ p.id = r.id
    /\ r.method = "tools/list" =>
          p.statusCode = 200 /\ p.result = "tools" /\ p.listed = g
    /\ r.method = "ping" => p.statusCode = 200 /\ p.result = "empty"
    /\ r.method = "foo" =>
          p.statusCode = 404 /\ p.code = -32601 /\ p.about = "foo"
    /\ (r.method = "tools/call" /\ r.params \in Registered(g)) =>
          /\ r.will # "convert" => "tool" \in {called[i] : i \in DOMAIN called}
          /\ p.statusCode = IF r.will = "return" THEN 200 ELSE 500
    /\ (r.method = "tools/call" /\ r.params \in ToolNames \ Registered(g)) =>
          p.statusCode = 404 /\ p.code = -32601 /\ p.about = r.params

\* C1: a well-formed request for a method other than initialize that carries
\* no session id is answered 400, code -32000, "Session required" when the
\* store is not the no-op store, and is dispatched to its method, not
\* rejected for lack of a session, when the store is the no-op store.
C1_SessionRequired ==
    \A t \in Threads :
        (Returned(t) /\ MethodCall(req[t]) /\ req[t].sid = None) =>
            IF storeKind # "NoOp"
            THEN /\ resp[t].statusCode = 400
                 /\ resp[t].kind = "error" /\ resp[t].code = -32000
                 /\ resp[t].message = "Session required"
            ELSE AnswersMethod(req[t], resp[t], calls[t], tools)

C1_Witness ==
    /\ Returned(MainThread) /\ MethodCall(req[MainThread])
    /\ req[MainThread].sid = None /\ req[MainThread].method = "tools/list"
    /\ storeKind = "Enforcing"
    /\ resp[MainThread].statusCode = 400
    /\ resp[MainThread].message = "Session required"

\* C2: a well-formed request for a method other than initialize that carries
\* a session id for which the store's get_session returns nothing is answered
\* 404, code -32000, "Invalid or expired session", whatever its method.
C2_UnknownSession ==
    [][\A t \in Threads :
        (/\ Handles(t) /\ MethodCall(req'[t]) /\ Truthy(req'[t].sid)
         /\ ~StoreGet(Store, req'[t].sid).found) =>
            /\ resp'[t].statusCode = 404
            /\ resp'[t].kind = "error" /\ resp'[t].code = -32000
            /\ resp'[t].message = "Invalid or expired session"
            /\ resp'[t].id = req'[t].id]_vars

C2_Witness ==
    /\ Returned(MainThread) /\ MethodCall(req[MainThread])
    /\ req[MainThread].method = "ping"
    /\ req[MainThread].sid \in removed
    /\ resp[MainThread].statusCode = 404
    /\ resp[MainThread].message = "Invalid or expired session"

\* C3: once initialize has returned session id s in the MCP-Session-Id
\* header, every later tools/list request carrying s is answered 200, as long
\* as s has not been deleted in between.
C3_IssuedSessionLists ==
    [][\A t \in Threads :
        (/\ Handles(t) /\ MethodCall(req'[t])
         /\ req'[t].method = "tools/list"
         /\ req'[t].sid \in issued \ removed) =>
            /\ resp'[t].statusCode = 200
            /\ resp'[t].kind = "result" /\ resp'[t].result = "tools"]_vars

C3_Witness ==
    /\ storeKind = "Enforcing"
    /\ Returned(MainThread) /\ MethodCall(req[MainThread])
    /\ req[MainThread].method = "tools/list"
    /\ req[MainThread].sid \in issued \ removed
    /\ resp[MainThread].statusCode = 200
    /\ removed # {}

\* C4: the store starts empty, and a session appears in it only in the step
\* of a well-formed initialize request that is answered 200 with that
\* session's id in its header: no other request adds a session.
C4_SessionsFromInitialize ==
    /\ sessions = <<>>
    /\ [][\A s \in DOMAIN sessions' \ DOMAIN sessions :
            \E t \in Threads :
                /\ Handles(t) /\ WellFormed(req'[t])
                /\ req'[t].method = "initialize"
                /\ resp'[t].statusCode = 200
                /\ resp'[t].result = "initialize"
                /\ resp'[t].sessionHeader = s]_vars

C4_Witness ==
    /\ Returned(MainThread)
    /\ req[MainThread].method = "initialize"
    /\ resp[MainThread].statusCode = 200
    /\ resp[MainThread].sessionHeader \in DOMAIN sessions
    /\ Cardinality(DOMAIN sessions) = 2

\* C5: a DELETE request with a session id deletes that session and is
\* answered 204 when the store reports it deleted and 404 when not, and
\* handle_request returns there: the only collaborator called is
\* delete_session and the response has no body, whatever the content type
\* and the body of the request.
C5_DeleteShortCircuit ==
    [][\A t \in Threads :
        (/\ Handles(t) /\ req'[t].headers = "dict"
         /\ req'[t].verb = "DELETE" /\ Truthy(req'[t].sid)) =>
            /\ calls'[t] = <<"delete_session">>
            /\ resp'[t].statusCode \in {204, 404}
            /\ resp'[t] = BareResponse(resp'[t].statusCode)
            /\ req'[t].sid \notin DOMAIN sessions'
            /\ \A s \in DOMAIN sessions \ {req'[t].sid} :
                  s \in DOMAIN sessions' /\ sessions'[s] = sessions[s]
            /\ nextId' = nextId
            /\ storeKind = "Enforcing" =>
                  (resp'[t].statusCode = 204 <=> req'[t].sid \in DOMAIN sessions)
       ]_vars

C5_Witness ==
    /\ Returned(MainThread) /\ storeKind = "Enforcing"
    /\ req[MainThread].verb = "DELETE" /\ Truthy(req[MainThread].sid)
    /\ req[MainThread].ctype = "text/plain"
    /\ req[MainThread].method = "initialize"
    /\ resp[MainThread].statusCode = 204
    /\ sessions # <<>>

\* C6: with an enforcing store, once a DELETE for session s has been
\* answered 204, every later well-formed request for a method other than
\* initialize that carries s is answered 404 with code -32000 and every later
\* DELETE for s is answered 404, also after later initialize requests.
C6_DeletedStaysDeleted ==
    [][\A t \in Threads :
        (/\ Handles(t) /\ storeKind = "Enforcing"
         /\ req'[t].headers = "dict" /\ req'[t].sid \in removed) =>
            /\ (req'[t].verb = "DELETE") => resp'[t].statusCode = 404
            /\ MethodCall(req'[t]) =>
                  /\ resp'[t].statusCode = 404
                  /\ resp'[t].kind = "error" /\ resp'[t].code = -32000
            /\ req'[t].sid \notin DOMAIN sessions']_vars

C6_Witness ==
    /\ Returned(MainThread) /\ storeKind = "Enforcing"
    /\ req[MainThread].verb = "DELETE"
    /\ req[MainThread].sid \in removed
    /\ resp[MainThread].statusCode = 404
    /\ Cardinality(issued) = 2 /\ Cardinality(DOMAIN sessions) = 1

\* C7 as stated: every request whose body has no id field is answered 202
\* with an empty body, whatever its content type, HTTP verb and session id.
C7_Original ==
    \A t \in Threads :
        (/\ Returned(t) /\ req[t].body \in {"object", "array"}
         /\ req[t].id = "absent") =>
            resp[t].statusCode = 202 /\ resp[t].body = "empty"

\* C7, amended: every request with content type application/json that is not
\* a session deletion (DELETE with a session id) and whose body is a JSON
\* object without an id field is answered 202 with an empty body, whatever
\* its method, its jsonrpc version and its session id.
C7_NotificationAccepted ==
    \A t \in Threads :
        (/\ Returned(t) /\ req[t].headers = "dict"
         /\ req[t].ctype = "application/json"
         /\ ~(req[t].verb = "DELETE" /\ Truthy(req[t].sid))
         /\ req[t].body = "object" /\ req[t].id = "absent") =>
            /\ resp[t].statusCode = 202 /\ resp[t].body = "empty"
            /\ resp[t].hasHeaders /\ resp[t].kind = "-"

C7_Witness ==
    /\ Returned(MainThread) /\ storeKind = "Enforcing"
    /\ req[MainThread].ctype = "application/json"
    /\ req[MainThread].verb = "DELETE" /\ req[MainThread].sid = None
    /\ req[MainThread].body = "object" /\ req[MainThread].id = "absent"
    /\ req[MainThread].jsonrpc = "1.0" /\ req[MainThread].method = "absent"
    /\ resp[MainThread].statusCode = 202

\* C8: handling a request whose body is a JSON object without an id field
\* (and that is not a session deletion) leaves the session store and the
\* registry as they were and calls neither the store nor a tool, also when
\* its method is initialize or tools/call with a registered tool name.
C8_NotificationNoEffect ==
    [][\A t \in Threads :
        (/\ Handles(t)
         /\ ~(req'[t].verb = "DELETE" /\ Truthy(req'[t].sid))
         /\ req'[t].body = "object" /\ req'[t].id = "absent") =>
            /\ sessions' = sessions /\ nextId' = nextId
            /\ storeKind' = storeKind /\ tools' = tools
            /\ issued' = issued /\ removed' = removed
            /\ calls'[t] = <<>> /\ seen'[t] = {}]_vars

C8_Witness ==
    /\ Returned(MainThread)
    /\ req[MainThread].ctype = "application/json"
    /\ req[MainThread].body = "object" /\ req[MainThread].id = "absent"
    /\ req[MainThread].jsonrpc = "2.0"
    /\ req[MainThread].method = "tools/call"
    /\ req[MainThread].params \in Registered(tools)
    /\ req[MainThread].sid \in DOMAIN sessions
    /\ resp[MainThread].statusCode = 202
    /\ calls[MainThread] = <<>>

\* C9: when handle_request has returned, whatever the exit path, the binding
\* current_session_id of its thread is None.
C9_BindingCleared ==
    \A t \in Threads : Returned(t) => CtxGet(ctx, t) = None

C9_Witness ==
    /\ Returned(MainThread)
    /\ req[MainThread].method = "tools/call"
    /\ Truthy(req[MainThread].sid)
    /\ resp[MainThread].statusCode = 500 /\ resp[MainThread].code = -32603
    /\ seen[MainThread] = {req[MainThread].sid}
    /\ CtxGet(ctx, MainThread) = None

\* C10: when handle_request runs in two threads at once, under every
\* interleaving each invocation reads only its own session id from
\* current_session_id: between its own set and its own clear the binding a
\* thread observes is the one it set, whatever the other thread sets or clears.
C10_BindingIsolated ==
    \A t \in Threads :
        /\ pc[t] \in {"bound", "tool"} =>
              CtxGet(ctx, t) = BoundSid(req[t].sid)
        /\ pc[t] = "finally" =>
              CtxGet(ctx, t) = IF resp[t].result = "initialize"
                               THEN resp[t].sessionHeader
                               ELSE BoundSid(req[t].sid)
        /\ seen[t] \subseteq {BoundSid(req[t].sid)}

C10_Witness ==
    \E t, u \in Threads :
        /\ t # u
        /\ pc[t] = "finally" /\ Truthy(req[t].sid) /\ seen[t] = {req[t].sid}
        /\ pc[u] = "tool" /\ Truthy(req[u].sid) /\ req[u].sid # req[t].sid
        /\ CtxGet(ctx, u) = req[u].sid

\* r, a request for a method other than initialize, passes the session
\* validation of the store before the step: the session it names exists, or
\* it names none and the store is the no-op store
PassesSessionValidation(r) ==
    /\ MethodCall(r)
    /\ IF Truthy(r.sid) THEN StoreGet(Store, r.sid).found
       ELSE storeKind = "NoOp"

\* r is a tools/call request whose params name a tool
CallsTool(r) == r.method = "tools/call" /\ r.params \in ToolNames

\* C11: a tools/call request that passes session validation and names a tool
\* that is not registered is answered 404 with code -32601 and a message that
\* contains the tool name, and no tool callable is invoked.
C11_ToolNotFound ==
    [][\A t \in Threads :
        (/\ Handles(t) /\ PassesSessionValidation(req'[t])
         /\ CallsTool(req'[t]) /\ req'[t].params \notin Registered(tools)) =>
            /\ resp'[t].statusCode = 404
            /\ resp'[t].kind = "error" /\ resp'[t].code = -32601
            /\ resp'[t].message = "Tool not found"
            /\ resp'[t].about = req'[t].params
            /\ "tool" \notin {calls'[t][i] : i \in DOMAIN calls'[t]}]_vars

C11_Witness ==
    /\ Returned(MainThread) /\ CallsTool(req[MainThread])
    /\ Registered(tools) = {"listItems"}
    /\ req[MainThread].params = "startRun"
    /\ resp[MainThread].statusCode = 404
    /\ resp[MainThread].message = "Tool not found"
    /\ resp[MainThread].about = "startRun"

\* C12 (as the specification states it): the response "Method not found" is
\* returned only for methods other than initialize, tools/list, tools/call
\* and ping; a tools/call request is never answered with it.
C12_Original ==
    \A t \in Threads :
        (Returned(t) /\ resp[t].message = "Method not found") =>
            req[t].method \notin {"initialize", "tools/list", "tools/call",
                                  "ping"}

\* C13: when a tools/call request for a registered tool passes session
\* validation and the conversion of the arguments, the unwrapping of the
\* defaults, the call or the awaiting of the result raises e, the response is
\* 500 with code -32603, a message that contains str(e), and an errorContent
\* list of one text item str(e).
C13_ToolError ==
    [][\A t \in Threads :
        (/\ Handles(t) /\ PassesSessionValidation(req'[t])
         /\ CallsTool(req'[t]) /\ req'[t].params \in Registered(tools)
         /\ req'[t].will \in {"raise", "convert"}) =>
            /\ resp'[t].statusCode = 500
            /\ resp'[t].kind = "error" /\ resp'[t].code = -32603
            /\ resp'[t].message = "Error executing tool"
            /\ resp'[t].about = ToolError
            /\ resp'[t].errorContent = <<ToolError>>
            /\ resp'[t].id = req'[t].id]_vars

C13_Witness ==
    /\ Returned(MainThread) /\ CallsTool(req[MainThread])
    /\ req[MainThread].params = "startRun"
    /\ req[MainThread].will = "raise"
    /\ "tool" \in {calls[MainThread][i] : i \in DOMAIN calls[MainThread]}
    /\ resp[MainThread].statusCode = 500
    /\ resp[MainThread].errorContent = <<ToolError>>

\* C14: when a tools/call request for a registered tool passes session
\* validation and the tool returns, the response is 200 and its result.content
\* is one text item, the string form of the value the tool finally returns;
\* for an asynchronous tool that is the value of the completed coroutine,
\* never the pending coroutine.
C14_ToolResult ==
    [][\A t \in Threads :
        (/\ Handles(t) /\ PassesSessionValidation(req'[t])
         /\ CallsTool(req'[t]) /\ req'[t].params \in Registered(tools)
         /\ req'[t].will = "return") =>
            /\ resp'[t].statusCode = 200
            /\ resp'[t].result = "content"
            /\ resp'[t].listed = <<"str(value)">>
            /\ resp'[t].id = req'[t].id]_vars

C14_Witness ==
    /\ Returned(MainThread) /\ CallsTool(req[MainThread])
    /\ invoked[MainThread].called /\ invoked[MainThread].func.async
    /\ req[MainThread].will = "return"
    /\ resp[MainThread].statusCode = 200
    /\ resp[MainThread].listed = <<"str(value)">>

\* r raises outside the tool execution block: its headers are null, its body
\* is missing or null, or the validation of the parsed request fails
RaisesOutsideTool(r) ==
    \/ r.headers = "null"
    \/ /\ r.headers = "dict" /\ ~(r.verb = "DELETE" /\ Truthy(r.sid))
       /\ r.ctype = "application/json"
       /\ \/ r.body \in {"missing", "null"}
          \/ /\ r.body = "object" /\ r.id # "absent" /\ r.jsonrpc = "2.0"
             /\ r.method # "absent" /\ r.params = "array"

\* the request id handle_request has extracted when r raises
ExtractedId(r) ==
    IF r.headers = "dict" /\ r.body = "object" THEN r.id ELSE "null"

\* the session id handle_request has read from the headers when r raises
SuppliedSid(r) ==
    IF r.headers = "dict" /\ Truthy(r.sid) THEN r.sid ELSE None

\* C15: an exception raised inside handle_request outside the tool execution
\* block (missing body, null headers, a request that fails validation, a
\* session-store call that raises) is answered with code -32000 and HTTP 500,
\* carrying the request id when it was already extracted and the session id
\* when one was supplied; handle_request always returns a response.
C15_TopLevelException ==
    [][\A t \in Threads :
        Handles(t) =>
            /\ resp'[t].statusCode # 0
            /\ (\/ RaisesOutsideTool(req'[t])
                \/ calls'[t] = <<"create_session", "raise">>) =>
                  /\ resp'[t].statusCode = 500
                  /\ resp'[t].kind = "error" /\ resp'[t].code = -32000
                  /\ resp'[t].body = "json"
                  /\ resp'[t].id = ExtractedId(req'[t])
                  /\ resp'[t].sessionHeader = SuppliedSid(req'[t])]_vars

C15_Witness ==
    /\ Returned(MainThread)
    /\ calls[MainThread] = <<"create_session", "raise">>
    /\ Truthy(req[MainThread].sid) /\ req[MainThread].id = "r1"
    /\ resp[MainThread].statusCode = 500 /\ resp[MainThread].code = -32000
    /\ resp[MainThread].sessionHeader = req[MainThread].sid

\* C16 (as the specification states it): every response with a status of 400
\* or more has a JSON-RPC body with an error object.
C16_Original ==
    \A t \in Threads :
        (Returned(t) /\ resp[t].statusCode >= 400) =>
            resp[t].body = "json" /\ "error" \in resp[t].members

\* C17 (as the specification states it): every response carries the headers
\* Content-Type: application/json and MCP-Version: 0.6.
C17_Original ==
    \A t \in Threads : Returned(t) => resp[t].hasHeaders

\* C18 (as the specification states it): every response to a request that
\* supplied a session id, other than that of initialize, carries that id in
\* the MCP-Session-Id header.
C18_Original ==
    \A t \in Threads :
        (/\ Returned(t) /\ req[t].headers = "dict" /\ Truthy(req[t].sid)
         /\ resp[t].result # "initialize") =>
            resp[t].sessionHeader = req[t].sid

\* the responses handle_request builds before it validates the session, and
\* the rejection of an unknown session
BeforeSession(p) ==
    \/ p.body \in {"-", "empty"}
    \/ p.message \in {"Unsupported Media Type", "Parse error",
                      "Invalid or expired session"}

\* C18: the response of initialize carries the id just created, not the id of
\* the request's header; the response to a request that supplied a session id
\* carries that id when the request passed session validation or was answered
\* by the top-level exception handler; the deletion, content-type, parse,
\* notification and unknown-session responses carry no session id.
C18_SessionHeader ==
    [][\A t \in Threads :
        Handles(t) =>
            /\ resp'[t].result = "initialize" =>
                  /\ resp'[t].sessionHeader = nextId
                  /\ resp'[t].sessionHeader \notin issued
            /\ (PassesSessionValidation(req'[t]) /\ Truthy(req'[t].sid)) =>
                  resp'[t].sessionHeader = req'[t].sid
            /\ (RaisesOutsideTool(req'[t]) /\ req'[t].headers = "dict"
                /\ Truthy(req'[t].sid)) =>
                  resp'[t].sessionHeader = req'[t].sid
            /\ BeforeSession(resp'[t]) => resp'[t].sessionHeader = None]_vars

C18_Witness ==
    /\ Returned(MainThread) /\ Truthy(req[MainThread].sid)
    /\ resp[MainThread].result = "initialize"
    /\ resp[MainThread].sessionHeader # req[MainThread].sid
    /\ resp[MainThread].sessionHeader \in issued

\* C19: every response with a non-empty body has exactly one of result and
\* error: a success response has result and no error, also when the result
\* is the empty object of ping, and an error response has error and no
\* result.
C19_ResultXorError ==
    \A t \in Threads :
        (Returned(t) /\ resp[t].body = "json") =>
            /\ Cardinality(resp[t].members) = 1
            /\ resp[t].statusCode = 200 <=> resp[t].members = {"result"}
            /\ resp[t].statusCode >= 400 <=> resp[t].members = {"error"}

C19_Witness ==
    /\ Returned(MainThread) /\ req[MainThread].method = "ping"
    /\ resp[MainThread].statusCode = 200
    /\ resp[MainThread].result = "empty"
    /\ resp[MainThread].members = {"result"}

\* C20: the status of an error response is the call site's override when one
\* is given, and otherwise 400 for -32700, -32600 and -32602, 404 for -32601,
\* and 500 for -32603, -32000 and every other code; it is never 200.
C20_ErrorStatus ==
    probe.fn = "_create_error_response" =>
        /\ probe.out.statusCode =
              IF probe.status # 0 THEN probe.status
              ELSE IF probe.code \in {-32700, -32600, -32602} THEN 400
              ELSE IF probe.code = -32601 THEN 404
              ELSE 500
        /\ probe.out.statusCode # 200
        /\ probe.out.code = probe.code

C20_Witness ==
    /\ probe.fn = "_create_error_response"
    /\ probe.code = -32001 /\ probe.status = 0
    /\ probe.out.statusCode = 500

\* r has headers, is not a session deletion, and so reaches the content-type
\* check
ReachesContentType(r) ==
    r.headers = "dict" /\ ~(r.verb = "DELETE" /\ Truthy(r.sid))

\* the step of thread t touches no session and calls no collaborator
NoSessionTouched(t) ==
    calls'[t] = <<>> /\ sessions' = sessions /\ nextId' = nextId

\* C21: every request that is not a session deletion and whose content-type
\* header is not application/json is rejected with the parse-error envelope
\* (code -32700, HTTP 400) before its body is parsed: no session is created
\* or looked up and no method is dispatched.
C21_UnsupportedMediaType ==
    [][\A t \in Threads :
        (/\ Handles(t) /\ ReachesContentType(req'[t])
         /\ req'[t].ctype # "application/json") =>
            /\ resp'[t].statusCode = 400
            /\ resp'[t].kind = "error" /\ resp'[t].code = -32700
            /\ resp'[t].message = "Unsupported Media Type"
            /\ resp'[t].id = "null"
            /\ NoSessionTouched(t)]_vars

C21_Witness ==
    /\ Returned(MainThread) /\ req[MainThread].ctype = "text/plain"
    /\ req[MainThread].method = "initialize" /\ req[MainThread].id = "r1"
    /\ storeKind = "Enforcing"
    /\ resp[MainThread].statusCode = 400 /\ resp[MainThread].code = -32700

\* C22 (as the specification states it): whenever the body of a request with
\* content type application/json is not valid JSON text, the response is the
\* parse-error envelope with code -32700, HTTP 400 and id null.
C22_Original ==
    \A t \in Threads :
        (/\ Returned(t) /\ ReachesContentType(req[t])
         /\ req[t].ctype = "application/json"
         /\ req[t].body \in {"invalid", "null"}) =>
            /\ resp[t].statusCode = 400
            /\ resp[t].code = -32700
            /\ resp[t].id = "null"

\* C23: every parsed body that carries an id but violates the envelope shape
\* (jsonrpc is not "2.0", or method is missing), and every parsed body that
\* is not a JSON object, is rejected with the parse-error envelope (HTTP 400)
\* carrying the extracted id when there is one; no session is created or
\* looked up and no tool is invoked.
C23_EnvelopeShape ==
    [][\A t \in Threads :
        (/\ Handles(t) /\ ReachesContentType(req'[t])
         /\ req'[t].ctype = "application/json"
         /\ \/ req'[t].body = "array"
            \/ /\ req'[t].body = "object" /\ req'[t].id # "absent"
               /\ (req'[t].jsonrpc # "2.0" \/ req'[t].method = "absent")) =>
            /\ resp'[t].statusCode = 400
            /\ resp'[t].kind = "error" /\ resp'[t].code = -32700
            /\ resp'[t].message = "Parse error"
            /\ resp'[t].id = IF req'[t].body = "object" THEN req'[t].id
                             ELSE "null"
            /\ NoSessionTouched(t)]_vars

C23_Witness ==
    /\ Returned(MainThread) /\ req[MainThread].ctype = "application/json"
    /\ req[MainThread].body = "object" /\ req[MainThread].jsonrpc = "1.0"
    /\ req[MainThread].method = "initialize" /\ req[MainThread].id = "r1"
    /\ resp[MainThread].statusCode = 400 /\ resp[MainThread].id = "r1"

\* the descriptor registered under name n
DescriptorOf(descriptors, n) ==
    CHOOSE d \in {descriptors[i] : i \in DOMAIN descriptors} : d.name = n

\* the names of a descriptor's inputSchema.properties and inputSchema.required
PropertyNames(d) == {d.properties[i].name : i \in DOMAIN d.properties}

RequiredNames(d) == {d.required[i] : i \in DOMAIN d.required}

\* the schema a descriptor gives for parameter name
PropertyOf(d, name) ==
    (CHOOSE q \in {d.properties[i] : i \in DOMAIN d.properties} :
        q.name = name).schema

\* the step of thread t handles a request for method m that passes session
\* validation
Serves(t, m) ==
    Handles(t) /\ PassesSessionValidation(req'[t]) /\ req'[t].method = m

\* C24: a tools/list request that passes session validation is answered 200
\* with result.tools holding one descriptor per registered tool name, every
\* registered name included, in the order of the registry; a name keeps the
\* position its first registration gave it, whatever is registered later.
C24_ToolsList ==
    [][/\ \A t \in Threads :
            Serves(t, "tools/list") =>
                /\ resp'[t].statusCode = 200 /\ resp'[t].result = "tools"
                /\ Registered(resp'[t].listed) = DOMAIN tool_implementations
                /\ Len(resp'[t].listed) =
                      Cardinality(DOMAIN tool_implementations)
                /\ \A i \in DOMAIN tools :
                      resp'[t].listed[i].name = tools[i].name
       /\ \A i \in DOMAIN tools :
            i \in DOMAIN tools' /\ tools'[i].name = tools[i].name
       /\ Len(tools') <= Len(tools) + 1]_vars

C24_Witness ==
    /\ Returned(MainThread) /\ req[MainThread].method = "tools/list"
    /\ resp[MainThread].statusCode = 200
    /\ "listX" \in replaced
    /\ Len(resp[MainThread].listed) = 3
    /\ resp[MainThread].listed[1].name = "tailX"
    /\ resp[MainThread].listed[2].name = "listX"
    /\ resp[MainThread].listed[3].name = "cancelX"

\* C25: after any sequence of registrations the registry holds one entry per
\* tool name and the descriptor map and the callable map have the same names;
\* a registration under an existing name adds no entry and replaces both the
\* descriptor and the callable, so that tools/list shows the descriptor of the
\* callable registered last and tools/call invokes that callable.
C25_LastRegistrationWins ==
    [][/\ Cardinality(Registered(tools')) = Len(tools')
       /\ DOMAIN tool_implementations' = Registered(tools')
       /\ \A i \in DOMAIN tools' :
            tools'[i].description =
                tool_implementations'[tools'[i].name].doc
       /\ \A n \in DOMAIN tool_implementations :
            tool_implementations'[n] # tool_implementations[n] =>
                /\ n \in replaced' /\ Len(tools') = Len(tools)
                /\ DescriptorOf(tools', n) # DescriptorOf(tools, n)
       /\ \A t \in Threads :
            /\ Serves(t, "tools/list") =>
                  \A i \in DOMAIN resp'[t].listed :
                      resp'[t].listed[i].description =
                          tool_implementations[resp'[t].listed[i].name].doc
            /\ (Serves(t, "tools/call") /\ invoked'[t].called) =>
                  invoked'[t].func = tool_implementations[req'[t].params]
      ]_vars

C25_Witness ==
    /\ Returned(MainThread) /\ req[MainThread].method = "tools/call"
    /\ req[MainThread].params = "listX" /\ "listX" \in replaced
    /\ invoked[MainThread].called /\ invoked[MainThread].func = list_X
    /\ Len(tools) = 1 /\ tools[1].description = "Search x."
    /\ resp[MainThread].statusCode = 200

\* the lower-camel-case name of each callable's identifier, written out
LowerCamelCase(func) ==
    IF func \in {list_x, list_X} THEN "listX"
    ELSE IF func = start_aho_run THEN "startAhoRun"
    ELSE IF func = cancel_x THEN "cancelX"
    ELSE IF func = tail_x THEN "tailX"
    ELSE IF func = Get_x THEN "GetX"
    ELSE IF func = list_items THEN "listItems"
    ELSE "startRun"

\* C26: the tool name is the callable's identifier split on underscores with
\* every segment but the first capitalized (start_aho_run gives startAhoRun);
\* that name is the key of the descriptor, the key of the callable and the
\* name tools/list advertises, so a name taken from tools/list is never
\* answered "Tool not found" by tools/call and reaches the callable of that
\* name.
C26_DerivedName ==
    [][/\ \A n \in DOMAIN tool_implementations' :
            /\ n = LowerCamelCase(tool_implementations'[n])
            /\ n \in Registered(tools')
       /\ Registered(tools') \subseteq DOMAIN tool_implementations'
       /\ \A t \in Threads :
            /\ Serves(t, "tools/list") =>
                  \A i \in DOMAIN resp'[t].listed :
                      resp'[t].listed[i].name =
                          LowerCamelCase(tool_implementations[
                              resp'[t].listed[i].name])
            /\ (Serves(t, "tools/call")
                /\ req'[t].params \in Registered(tools)) =>
                  /\ resp'[t].statusCode # 404
                  /\ resp'[t].code # -32601
                  /\ invoked'[t].called =>
                        LowerCamelCase(invoked'[t].func) = req'[t].params
      ]_vars

C26_Witness ==
    /\ Returned(MainThread) /\ req[MainThread].method = "tools/call"
    /\ req[MainThread].params = "startAhoRun"
    /\ invoked[MainThread].called
    /\ invoked[MainThread].func = start_aho_run
    /\ resp[MainThread].statusCode = 200

\* the tool name of n's callable, as characters
NameChars(n) == ToolNameChars(tool_implementations[n].name)

\* C27 (as the specification states it): readOnlyHint is true if and only if
\* the tool name begins with one of the prefixes.
C27_Original ==
    \A i \in DOMAIN tools :
        tools[i].readOnlyHint <=>
            \E prefix \in ReadOnlyPrefixes :
                StartsWith(NameChars(tools[i].name), prefix)

\* C27: readOnlyHint is true if and only if the tool name, with its letters
\* lower-cased, begins with one of the prefixes: listX and tailX are
\* read-only, startAhoRun and cancelX are not, and GetX is.
C27_ReadOnlyHint ==
    \A i \in DOMAIN tools :
        /\ tools[i].readOnlyHint <=>
              \E prefix \in ReadOnlyPrefixes :
                  StartsWith(LowerAll(NameChars(tools[i].name)), prefix)
        /\ tools[i].name \in {"listX", "tailX", "GetX", "listItems"} =>
              tools[i].readOnlyHint
        /\ tools[i].name \in {"startAhoRun", "cancelX", "startRun"} =>
              ~tools[i].readOnlyHint

C27_Witness ==
    /\ Returned(MainThread) /\ req[MainThread].method = "tools/list"
    /\ resp[MainThread].statusCode = 200
    /\ \E i, j, k \in DOMAIN resp[MainThread].listed :
          /\ resp[MainThread].listed[i].name = "GetX"
          /\ resp[MainThread].listed[i].readOnlyHint
          /\ resp[MainThread].listed[j].name = "cancelX"
          /\ ~resp[MainThread].listed[j].readOnlyHint
          /\ resp[MainThread].listed[k].name = "tailX"
          /\ resp[MainThread].listed[k].readOnlyHint

\* the declared parameters of the callable registered under n
ParamsOf(n) ==
    {tool_implementations[n].params[i] :
        i \in DOMAIN tool_implementations[n].params}

\* C28 (as the specification states it): every declared parameter other than
\* the context parameter, annotated or not, is listed in inputSchema.required
\* if and only if it has no default or its default is a Field marked required.
C28_Original ==
    \A i \in DOMAIN tools :
        \A q \in ParamsOf(tools[i].name) :
            ~IsMcpContextParam(q) =>
                (q.name \in RequiredNames(tools[i]) <=>
                    q.default \in {"empty", "field_required"})

\* the hint Optional[List[str]]
OptionalListOfStr == OptionalT(ListT(<<StrT>>))

\* C29 (as the specification states it): a parameter typed Optional[List[str]]
\* that has no default has a schema of type array with string items and is
\* absent from required.
C29_Original ==
    \A i \in DOMAIN tools :
        \A q \in ParamsOf(tools[i].name) :
            (q.annotated /\ q.hint = OptionalListOfStr
             /\ q.default = "empty") =>
                /\ PropertyOf(tools[i], q.name) =
                      [type |-> "array", items |-> [type |-> "string"]]
                /\ q.name \notin RequiredNames(tools[i])

\* C29: a parameter typed Optional[List[str]] has a schema of type array with
\* string items; it is absent from required when it has a default (None, say)
\* and listed in required when it has none.
C29_OptionalList ==
    \A i \in DOMAIN tools :
        \A q \in ParamsOf(tools[i].name) :
            (q.annotated /\ q.hint = OptionalListOfStr) =>
                /\ q.name \in PropertyNames(tools[i])
                /\ PropertyOf(tools[i], q.name) =
                      [type |-> "array", items |-> [type |-> "string"]]
                /\ q.name \in RequiredNames(tools[i]) <=>
                      q.default \in {"empty", "field_required"}

C29_Witness ==
    /\ Registered(tools) = {"listX", "tailX"}
    /\ tool_implementations["listX"] = list_X
    /\ PropertyOf(DescriptorOf(tools, "listX"), "search_terms").type = "array"
    /\ "search_terms" \notin RequiredNames(DescriptorOf(tools, "listX"))
    /\ "terms" \in RequiredNames(DescriptorOf(tools, "tailX"))

\* C30: a parameter named ctx and typed Context appears neither in the
\* properties nor in required, and a tools/call that passes session
\* validation and does not supply it is answered 200, the callable having
\* received None for it.
C30_ContextHidden ==
    [][/\ \A i \in DOMAIN tools' :
            \A q \in {tool_implementations'[tools'[i].name].params[k] :
                        k \in DOMAIN
                            tool_implementations'[tools'[i].name].params} :
                IsMcpContextParam(q) =>
                    /\ q.name \notin PropertyNames(tools'[i])
                    /\ q.name \notin RequiredNames(tools'[i])
       /\ \A t \in Threads :
            (/\ Serves(t, "tools/call")
             /\ req'[t].params \in Registered(tools)
             /\ req'[t].will = "return"
             /\ \E q \in ParamsOf(req'[t].params) : IsMcpContextParam(q)) =>
                /\ resp'[t].statusCode = 200
                /\ invoked'[t].called
                /\ \A k \in DOMAIN invoked'[t].args :
                      invoked'[t].args[k].name = "ctx" =>
                          invoked'[t].args[k].value = "None"]_vars

C30_Witness ==
    /\ Returned(MainThread) /\ req[MainThread].method = "tools/call"
    /\ req[MainThread].params = "listX"
    /\ req[MainThread].args = "required"
    /\ invoked[MainThread].called /\ invoked[MainThread].func = list_x
    /\ invoked[MainThread].args[1] = [name |-> "ctx", value |-> "None"]
    /\ invoked[MainThread].args[2].value = "raw"
    /\ resp[MainThread].statusCode = 200

\* the schema the specification states for a type expression
RECURSIVE SchemaAsStated(_)
SchemaAsStated(hint) ==
    IF hint = IntT THEN [type |-> "integer"]
    ELSE IF hint = FloatT THEN [type |-> "number"]
    ELSE IF hint = BoolT THEN [type |-> "boolean"]
    ELSE IF hint = StrT THEN [type |-> "string"]
    ELSE IF hint = EnumT THEN [type |-> "string", enum |-> "member values"]
    ELSE IF hint \in {BareDictT, DictT(<<>>)}
    THEN [type |-> "object", additionalProperties |-> [type |-> "true"]]
    ELSE IF hint \in {BareListT, ListT(<<>>)}
    THEN [type |-> "array", items |-> [type |-> "{}"]]
    ELSE IF Len(hint) = 1 THEN [type |-> "string"]
    ELSE IF hint[1] = "Union"
    THEN LET alternatives == SelectSeq(hint[2], LAMBDA a : a # NoneT) IN
         IF Len(alternatives) = 1 THEN SchemaAsStated(alternatives[1])
         ELSE [type |-> "string"]
    ELSE IF hint[1] = "dict"
    THEN [type |-> "object",
          additionalProperties |-> SchemaAsStated(hint[2][2])]
    ELSE IF hint[1] = "list"
    THEN [type |-> "array", items |-> SchemaAsStated(hint[2][1])]
    ELSE [type |-> "string"]

\* C31 (as the specification states it): get_type_schema gives, for every
\* type expression, the schema of the stated precedence: a mapping is an
\* object and a sequence is an array, typed or untyped.
C31_Original ==
    probe.fn = "get_type_schema" => probe.out = SchemaAsStated(probe.hint)

\* C32 (as the specification states it): in every tools/call that reaches
\* invocation, no parameter of the callable is bound to a Field descriptor,
\* whatever the caller supplied or omitted.
C32_Original ==
    \A t \in Threads :
        (Returned(t) /\ req[t].method = "tools/call" /\ invoked[t].called) =>
            \A k \in DOMAIN invoked[t].args :
                invoked[t].args[k].value # "FieldInfo"

\* C33: with the no-op store no request is rejected by the session check:
\* every well-formed request for a method other than initialize is dispatched
\* to its method, whether it carries no session id, an id that initialize
\* returned or an id that was never issued.
C33_NoOpNeverRejects ==
    [][\A t \in Threads :
        (Handles(t) /\ storeKind = "NoOp" /\ MethodCall(req'[t])) =>
            /\ AnswersMethod(req'[t], resp'[t], calls'[t], tools)
            /\ resp'[t].code # -32000
            /\ sessions' = sessions]_vars

C33_Witness ==
    /\ storeKind = "NoOp" /\ Returned(MainThread)
    /\ MethodCall(req[MainThread])
    /\ req[MainThread].method = "tools/call"
    /\ Truthy(req[MainThread].sid) /\ req[MainThread].sid \notin issued
    /\ issued # {}
    /\ invoked[MainThread].called
    /\ resp[MainThread].statusCode = 200

\* the value the invocation of thread t bound to the parameter called name
ReceivedFor(invocation, name) ==
    (CHOOSE a \in {invocation.args[k] : k \in DOMAIN invocation.args} :
        a.name = name).value

\* C34: in a tools/call, a supplied argument of an enum parameter that is a
\* member value reaches the callable as the enum member, and one that is not
\* a member value is answered -32603 / 500 without the callable being
\* invoked; the callable never receives the raw value for an enum parameter.
C34_EnumConversion ==
    [][\A t \in Threads :
        (Serves(t, "tools/call") /\ req'[t].params \in Registered(tools)) =>
            \A q \in ParamsOf(req'[t].params) :
                (/\ IsEnumParam(q)
                 /\ q.name \in Supplied(tool_implementations[req'[t].params],
                                        req'[t].args)) =>
                    /\ req'[t].args = "all" =>
                          /\ invoked'[t].called
                          /\ ReceivedFor(invoked'[t], q.name) = "member"
                    /\ req'[t].args = "invalid" =>
                          /\ ~invoked'[t].called
                          /\ "tool" \notin
                                {calls'[t][k] : k \in DOMAIN calls'[t]}
                          /\ resp'[t].statusCode = 500
                          /\ resp'[t].code = -32603]_vars

C34_Witness ==
    /\ Returned(MainThread) /\ req[MainThread].method = "tools/call"
    /\ req[MainThread].params = "GetX" /\ req[MainThread].args = "all"
    /\ invoked[MainThread].called /\ invoked[MainThread].func = Get_x
    /\ ReceivedFor(invoked[MainThread], "mode") = "member"
    /\ ReceivedFor(invoked[MainThread], "ctx") = "raw"
    /\ resp[MainThread].statusCode = 200

\* how many times the handling of a request entered a tool
Invocations(called) ==
    Cardinality({k \in DOMAIN called : called[k] = "tool"})

\* the arguments of r convert and bind to the parameters of the callable
\* registered under r's tool name
ArgumentsBind(r) ==
    LET func == tool_implementations[r.params] IN
    /\ r.will # "convert" /\ ~ConversionRaises(func, r.args)
    /\ Binds(func, ConvertedArgs(func, Supplied(func, r.args)))

\* C36: a request invokes a tool at most once: exactly once when it is a
\* tools/call that passes session validation, names a registered tool and
\* whose arguments convert and bind, also when the tool raises, and not at
\* all otherwise.
C36_AtMostOnce ==
    [][\A t \in Threads :
        Handles(t) =>
            /\ Invocations(calls'[t]) <= 1
            /\ Invocations(calls'[t]) = 1 <=> invoked'[t].called
            /\ Invocations(calls'[t]) = 1 <=>
                  /\ PassesSessionValidation(req'[t])
                  /\ req'[t].method = "tools/call"
                  /\ req'[t].params \in Registered(tools)
                  /\ ArgumentsBind(req'[t])]_vars

C36_Witness ==
    /\ Returned(MainThread) /\ req[MainThread].method = "tools/call"
    /\ req[MainThread].will = "raise"
    /\ calls[MainThread] = <<"get_session", "tool">>
    /\ invoked[MainThread].called
    /\ resp[MainThread].statusCode = 500 /\ resp[MainThread].code = -32603

\* C37: handle_request never changes the registry: every step of a request,
\* of any method and any outcome, leaves the descriptor map and the callable
\* map as they were, so that a tools/list is answered with the descriptors
\* the registrations left, whatever was requested in between.
C37_RegistryUnchanged ==
    [][/\ pc' # pc =>
            /\ tools' = tools
            /\ tool_implementations' = tool_implementations
       /\ \A t \in Threads :
            Serves(t, "tools/list") =>
                /\ resp'[t].listed = tools
                /\ \A i \in DOMAIN tools :
                      tools[i] = ToolSchema(tool_implementations[tools[i].name])
      ]_vars

C37_Witness ==
    /\ Returned(MainThread) /\ req[MainThread].method = "tools/call"
    /\ req[MainThread].will = "raise" /\ invoked[MainThread].called
    /\ resp[MainThread].statusCode = 500
    /\ Len(tools) = 2 /\ DOMAIN tool_implementations = ToolNames

\* C38: with an enforcing store the session is validated before the method
\* is looked at: a well-formed request for a method other than initialize
\* that carries no session id, or one the store does not hold, is answered
\* with the session error -32000 (400 without an id, 404 with an unknown
\* one), never with the tool list, a method-not-found or a tool-not-found
\* error, and no tool is invoked, also when its method or tool is unknown.
C38_SessionBeforeDispatch ==
    [][\A t \in Threads :
        (/\ Handles(t) /\ storeKind = "Enforcing" /\ MethodCall(req'[t])
         /\ (~Truthy(req'[t].sid) \/ req'[t].sid \notin DOMAIN sessions)) =>
            /\ resp'[t].kind = "error" /\ resp'[t].code = -32000
            /\ resp'[t].statusCode = IF Truthy(req'[t].sid) THEN 404 ELSE 400
            /\ resp'[t].message =
                  IF Truthy(req'[t].sid) THEN "Invalid or expired session"
                  ELSE "Session required"
            /\ resp'[t].listed = <<>> /\ resp'[t].result = "-"
            /\ ~invoked'[t].called /\ Invocations(calls'[t]) = 0]_vars

C38_Witness ==
    /\ storeKind = "Enforcing" /\ Returned(MainThread)
    /\ MethodCall(req[MainThread]) /\ req[MainThread].method = "foo"
    /\ Truthy(req[MainThread].sid)
    /\ req[MainThread].sid \notin issued /\ sessions # <<>>
    /\ resp[MainThread].statusCode = 404 /\ resp[MainThread].code = -32000

\* r is a well-formed initialize request that is not a session deletion
InitializeCall(r) ==
    /\ WellFormed(r) /\ r.method = "initialize"
    /\ ~(r.verb = "DELETE" /\ Truthy(r.sid))

\* C39: an initialize request needs no session and reuses none: whatever
\* session id it carries (none, a known one, an unknown one) and whatever the
\* store, it calls create_session only and, unless that call raises, is
\* answered 200 with an id that was never issued before; with an enforcing
\* store that id names a new session, and every session that existed,
\* the one named in the header included, is kept with its data.
C39_InitializeCreates ==
    [][\A t \in Threads :
        (/\ Handles(t) /\ InitializeCall(req'[t])
         /\ calls'[t] # <<"create_session", "raise">>) =>
            /\ calls'[t] = <<"create_session">>
            /\ resp'[t].statusCode = 200 /\ resp'[t].result = "initialize"
            /\ resp'[t].sessionHeader \notin issued
            /\ resp'[t].sessionHeader \notin DOMAIN sessions
            /\ storeKind = "Enforcing" =>
                  DOMAIN sessions' =
                      DOMAIN sessions \cup {resp'[t].sessionHeader}
            /\ \A s \in DOMAIN sessions :
                  s \in DOMAIN sessions' /\ sessions'[s] = sessions[s]]_vars

C39_Witness ==
    /\ storeKind = "Enforcing" /\ Returned(MainThread)
    /\ InitializeCall(req[MainThread])
    /\ req[MainThread].sid \in DOMAIN sessions
    /\ resp[MainThread].statusCode = 200
    /\ resp[MainThread].sessionHeader \in DOMAIN sessions
    /\ resp[MainThread].sessionHeader # req[MainThread].sid

\* thread t has finished an update_session that wrote to session sid
Updated(h, t, sid) ==
    /\ h[t].op = "update_session" /\ h[t].result = "True" /\ h[t].sid = sid

\* C35: update_session fetches, changes and writes back without atomicity:
\* the fetch leaves the store as it is, and the write replaces the whole data
\* of the session with the data the updater fetched earlier plus its own
\* change, whatever the store holds by then; so when two updaters have
\* written to one session, the session holds the whole data of one of them.
C35_LastWriterWins ==
    [][/\ \A t \in Threads :
            /\ (pc[t] = "tool" /\ pc'[t] = "fetched") =>
                  /\ sessions' = sessions
                  /\ storeKind = "Enforcing" =>
                        helper'[t].data = sessions[helper'[t].sid] \cup {t}
            /\ (pc[t] = "fetched" /\ pc'[t] = "done") =>
                  /\ helper'[t].data = helper[t].data
                  /\ (storeKind = "Enforcing"
                      /\ helper[t].sid \in DOMAIN sessions) =>
                        /\ sessions'[helper[t].sid] = helper[t].data
                        /\ helper'[t].result = "True"
                  /\ \A s \in DOMAIN sessions \ {helper[t].sid} :
                        sessions'[s] = sessions[s]
       /\ \A t, u \in Threads, sid \in DOMAIN sessions' :
            (t # u /\ Updated(helper', t, sid) /\ Updated(helper', u, sid)) =>
                sessions'[sid] \in {helper'[t].data, helper'[u].data}
      ]_vars

\* an interleaving after which one of two changes is lost
C35_Witness ==
    \E sid \in DOMAIN sessions :
        /\ storeKind = "Enforcing"
        /\ Updated(helper, "t1", sid) /\ Updated(helper, "t2", sid)
        /\ sessions[sid] = {"t2"}
        /\ helper["t1"].data = {"t1"}

\* C40: the session helpers a tool calls see the session id of the header of
\* the request their thread is handling, whatever the other thread is
\* handling: they read and write that session only, and without a session id
\* get_session returns None and set_session and update_session return False
\* without a call of the store.
C40_HelpersUseOwnBinding ==
    [][\A t \in Threads :
        (helper'[t] # helper[t] /\ helper'[t].op # "-") =>
            /\ req[t].method = "tools/call"
            /\ helper'[t].sid = BoundSid(req[t].sid)
            /\ seen'[t] \subseteq {BoundSid(req[t].sid)}
            /\ \A s \in DOMAIN sessions :
                  s # req[t].sid =>
                      s \in DOMAIN sessions' /\ sessions'[s] = sessions[s]
            /\ (/\ helper'[t].op = "get_session" /\ storeKind = "Enforcing"
                /\ req[t].sid \in DOMAIN sessions) =>
                  /\ helper'[t].result = "SessionData"
                  /\ helper'[t].data = sessions[req[t].sid]
            /\ ~Truthy(req[t].sid) =>
                  /\ helper'[t].result \in {"None", "False"}
                  /\ sessions' = sessions
                  /\ calls'[t] = calls[t]]_vars

C40_Witness ==
    /\ storeKind = "Enforcing"
    /\ helper["t2"].op = "set_session" /\ helper["t2"].result = "True"
    /\ pc["t1"] = "fetched"
    /\ req["t1"].sid # req["t2"].sid
    /\ sessions[req["t2"].sid] = {"t2"}
    /\ sessions[req["t1"].sid] = {}

====
